---- MODULE Spec2Model ----
(***************************************************************************)
(* Model of the environment registry of gym/envs/registration.py:          *)
(* parse_env_id, EnvSpec, EnvSpecTree and EnvRegistry.                     *)
(*                                                                         *)
(* A Python string is a sequence of one-character strings, so that the    *)
(* identifier parser and the canonical-id property work on characters.    *)
(* The value None is NoneStr where a string is expected and NoneInt where *)
(* an integer is expected.                                                 *)
(***************************************************************************)
EXTENDS Integers, Sequences, FiniteSets, TLC

\* ---------------------------------------------------------------- bounds
\* cap on EnvSpecTree._length in the runs of the read operations
MaxLeaves == 3
\* cap on the length of the strings given to parse_env_id on its own
MaxIdLen == 5
\* cap on EnvSpecTree._length (it only ever grows by one per insertion)
MaxLength == 2
\* cap on the nesting depth of namespace() scopes
MaxDepth == 2

\* ------------------------------------------------------------ Python None
NoneStr == <<"None">>
NoneInt == -1

\* --------------------------------------------------------- character sets
Digits == {"0", "1", "2", "3", "4", "5", "6", "7", "8", "9"}

Letters ==
    {"a", "b", "c", "d", "e", "f", "g", "h", "i", "j", "k", "l", "m",
     "n", "o", "p", "q", "r", "s", "t", "u", "v", "w", "x", "y", "z",
     "A", "B", "C", "D", "E", "F", "G", "H", "I", "J", "K", "L", "M",
     "N", "O", "P", "Q", "R", "S", "T", "U", "V", "W", "X", "Y", "Z"}

\* \w
WordChars == Letters \cup Digits \cup {"_"}

\* a namespace group that takes the dot too
NamespaceChars_with_dot == WordChars \cup {":", ".", "-"}

\* [\w:-]
NamespaceChars == WordChars \cup {":", "-"}

\* [\w:.-]
NameChars == WordChars \cup {":", ".", "-"}

\* ------------------------------------------------------- string helpers
AllIn(s, chars) == \A i \in 1..Len(s) : s[i] \in chars

DigitVal(c) ==
    CASE c = "0" -> 0 [] c = "1" -> 1 [] c = "2" -> 2 [] c = "3" -> 3
      [] c = "4" -> 4 [] c = "5" -> 5 [] c = "6" -> 6 [] c = "7" -> 7
      [] c = "8" -> 8 [] c = "9" -> 9

DigitChar(d) ==
    CASE d = 0 -> "0" [] d = 1 -> "1" [] d = 2 -> "2" [] d = 3 -> "3"
      [] d = 4 -> "4" [] d = 5 -> "5" [] d = 6 -> "6" [] d = 7 -> "7"
      [] d = 8 -> "8" [] d = 9 -> "9"

\* int(version)
RECURSIVE StrToInt(_)
StrToInt(s) ==
    IF Len(s) = 0 THEN 0
    ELSE 10 * StrToInt(SubSeq(s, 1, Len(s) - 1)) + DigitVal(s[Len(s)])

\* f"{version}"
RECURSIVE IntToStr(_)
IntToStr(n) ==
    IF n < 10 THEN <<DigitChar(n)>>
    ELSE Append(IntToStr(n \div 10), DigitChar(n % 10))

\* --------------------------------------------------------- parse_env_id
\* (?:-v(?P<version>\d+))?$ matched against the text after the name
IsVersionSuffix(s) ==
    \/ Len(s) = 0
    \/ /\ Len(s) >= 3
       /\ s[1] = "-"
       /\ s[2] = "v"
       /\ AllIn(SubSeq(s, 3, Len(s)), Digits)

\* the lengths the group (?P<name>[\w:.-]+?) can take in a full match
NameSplits(rest) ==
    {k \in 1..Len(rest) :
        /\ AllIn(SubSeq(rest, 1, k), NameChars)
        /\ IsVersionSuffix(SubSeq(rest, k + 1, Len(rest)))}

MinOf(S) == CHOOSE k \in S : \A j \in S : k <= j

SlashPositions(id) == {i \in 1..Len(id) : id[i] = "/"}

\* the part of the id the namespace group leaves to the name and version
RestOf(id) ==
    IF SlashPositions(id) = {} THEN id
    ELSE SubSeq(id, MinOf(SlashPositions(id)) + 1, Len(id))

NamespaceOf(id) ==
    IF SlashPositions(id) = {} THEN NoneStr
    ELSE SubSeq(id, 1, MinOf(SlashPositions(id)) - 1)

\* pattern.fullmatch(id) is not None
Matches(id) ==
    /\ \/ SlashPositions(id) = {}
       \/ /\ Len(NamespaceOf(id)) >= 1
          /\ AllIn(NamespaceOf(id), NamespaceChars)
    /\ NameSplits(RestOf(id)) # {}

\* the triple (namespace, name, version); defined when Matches(id)
parse_env_id(id) ==
    LET rest == RestOf(id)
        k    == MinOf(NameSplits(rest))   \* non-greedy: the shortest name
    IN  [namespace |-> NamespaceOf(id),
         name      |-> SubSeq(rest, 1, k),
         version   |-> IF k = Len(rest) THEN NoneInt
                       ELSE StrToInt(SubSeq(rest, k + 3, Len(rest)))]

\* ---------------------------------------------------------------- EnvSpec
\* EnvSpec(id, entry_point=...): __post_init__ parses the id
EnvSpec(id, entry_point) ==
    [namespace   |-> parse_env_id(id).namespace,
     name        |-> parse_env_id(id).name,
     version     |-> parse_env_id(id).version,
     entry_point |-> entry_point,
     max_episode_steps |-> NoneInt,
     order_enforce     |-> TRUE,
     kwargs            |-> {}]

\* an id rendered without the namespace of the record
SpecId_no_namespace(spec) ==
    spec.name
    \o (IF spec.version = NoneInt THEN <<>>
        ELSE <<"-", "v">> \o IntToStr(spec.version))

\* the property EnvSpec.id
SpecId(spec) ==
    (IF spec.namespace = NoneStr THEN <<>> ELSE spec.namespace \o <<"/">>)
    \o spec.name
    \o (IF spec.version = NoneInt THEN <<>>
        ELSE <<"-", "v">> \o IntToStr(spec.version))

\* ------------------------------------------- insertion-ordered dict
\* A Python dict is a sequence of [key, val] entries in insertion order.
Keys(d) == {d[i].key : i \in 1..Len(d)}

Has(d, k) == \E i \in 1..Len(d) : d[i].key = k

IndexOf(d, k) == CHOOSE i \in 1..Len(d) : d[i].key = k

\* d[k] for a key that is present
Lookup(d, k) == d[IndexOf(d, k)].val

\* an assignment that moves the assigned key to the end
Put_move_to_end(d, k, v) ==
    Append(SelectSeq(d, LAMBDA e : e.key # k), [key |-> k, val |-> v])

\* d[k] = v: an existing key keeps its position, a new key goes last
Put(d, k, v) ==
    IF Has(d, k) THEN [d EXCEPT ![IndexOf(d, k)].val = v]
    ELSE Append(d, [key |-> k, val |-> v])

\* d.pop(k) for a key that is present
Pop(d, k) ==
    LET i == IndexOf(d, k)
    IN  SubSeq(d, 1, i - 1) \o SubSeq(d, i + 1, Len(d))

\* list(d.values())
Values(d) == [i \in 1..Len(d) |-> d[i].val]

\* defaultdict access d[k]: the entries under k, empty when k is missing
Sub(d, k) == IF Has(d, k) THEN Lookup(d, k) ELSE <<>>

\* ------------------------------------------------------ relocation table
\* gym/envs/__relocated__.py: name -> (namespace, package)
RelocatedName == <<"B">>
RelocatedNamespace == <<"N">>
RelocatedPackage == "ale-py"

internal_env_relocation_map ==
    [n \in {RelocatedName} |->
        [namespace |-> RelocatedNamespace, package |-> RelocatedPackage]]

\* ------------------------------------------------------------ results
\* What a call gives back: kind "ok" with the value, or the exception
\* raised together with what its message names.
NoSpec == [namespace |-> NoneStr, name |-> <<>>, version |-> NoneInt,
           entry_point |-> 0, max_episode_steps |-> NoneInt,
           order_enforce |-> TRUE, kwargs |-> {}]

\* no environment was constructed
NoEnv == [entry_point |-> 0, kwargs |-> {}, spec |-> NoSpec,
          wrappers |-> {}]

\* warnings: the warnings the call logged; specs: the list versions returns;
\* env: the environment make returns; msg: the message of an error.Error;
\* ids: the strings names, namespaces and iteration give
Result(kind, value, latest, valid, package) ==
    [kind |-> kind, value |-> value, latest |-> latest, valid |-> valid,
     package |-> package, warnings |-> {}, specs |-> <<>>, env |-> NoEnv,
     msg |-> "", ids |-> <<>>]

\* logger.warn(...) during a call
Warned(res, warnings) == [res EXCEPT !.warnings = warnings]

\* return versions
Listed(specs) == [Result("ok", NoSpec, NoneInt, <<>>, "") EXCEPT !.specs = specs]

\* the exceptions `except error.UnregisteredEnv` catches
UnregisteredEnv == {"NamespaceNotFound", "NameNotFound", "VersionNotFound"}

Ok == Result("ok", NoSpec, NoneInt, <<>>, "")
Returns(value) == Result("ok", value, NoneInt, <<>>, "")
Raises(kind) == Result(kind, NoSpec, NoneInt, <<>>, "")

\* error.Error(f"Malformed environment ID: ...")
Malformed == [Raises("Error") EXCEPT !.msg = "Malformed environment ID"]

\* ------------------------------------------------------------ EnvSpecTree
\* EnvSpecTree._assert_namespace_exists
assert_namespace_exists(t, namespace) ==
    IF Has(t, namespace) THEN Ok ELSE Raises("NamespaceNotFound")

\* _assert_name_exists relying on the defaultdict instead of checking the
\* namespace first
assert_name_exists_defaultdict(t, namespace, name) ==
    IF Has(Sub(t, namespace), name) THEN Ok
    ELSE IF namespace = NoneStr /\ name \in DOMAIN internal_env_relocation_map
         THEN Result("NameNotFound", NoSpec, NoneInt, <<>>,
                     internal_env_relocation_map[name].package)
         ELSE Raises("NameNotFound")

\* _assert_name_exists without the relocation branch
assert_name_exists_generic(t, namespace, name) ==
    IF assert_namespace_exists(t, namespace).kind # "ok"
    THEN assert_namespace_exists(t, namespace)
    ELSE IF Has(Lookup(t, namespace), name) THEN Ok
    ELSE Raises("NameNotFound")

\* EnvSpecTree._assert_name_exists
assert_name_exists(t, namespace, name) ==
    IF assert_namespace_exists(t, namespace).kind # "ok"
    THEN assert_namespace_exists(t, namespace)
    ELSE IF Has(Lookup(t, namespace), name) THEN Ok
    ELSE IF namespace = NoneStr /\ name \in DOMAIN internal_env_relocation_map
         THEN Result("NameNotFound", NoSpec, NoneInt, <<>>,
                     internal_env_relocation_map[name].package)
         ELSE Raises("NameNotFound")

\* versions without the records of the relocated namespace
versions_base_only(t, namespace, name) ==
    IF assert_name_exists(t, namespace, name).kind # "ok"
    THEN assert_name_exists(t, namespace, name)
    ELSE Listed(Values(Lookup(Lookup(t, namespace), name)))

\* EnvSpecTree.versions
versions(t, namespace, name) ==
    IF assert_name_exists(t, namespace, name).kind # "ok"
    THEN assert_name_exists(t, namespace, name)
    ELSE LET base == Values(Lookup(Lookup(t, namespace), name))
         IN  IF namespace = NoneStr
                /\ name \in DOMAIN internal_env_relocation_map
             THEN LET relocated_namespace ==
                          internal_env_relocation_map[name].namespace
                      r == assert_name_exists(t, relocated_namespace, name)
                  IN  IF r.kind = "ok"
                      THEN Listed(base \o Values(Lookup(
                               Lookup(t, relocated_namespace), name)))
                      ELSE IF r.kind \in UnregisteredEnv THEN Listed(base)
                      ELSE r
             ELSE Listed(base)

\* max(all_versions, key=lambda spec: spec.version, default=None):
\* the running maximum after the first i specs; comparing None with
\* anything raises TypeError
RECURSIVE MaxSpec(_, _)
MaxSpec(specs, i) ==
    IF i = 0 THEN Returns(NoSpec)
    ELSE IF i = 1 THEN Returns(specs[1])
    ELSE LET prev == MaxSpec(specs, i - 1)
         IN  IF prev.kind # "ok" THEN prev
             ELSE IF specs[i].version = NoneInt \/ prev.value.version = NoneInt
                  THEN Raises("TypeError")
             ELSE IF specs[i].version > prev.value.version
                  THEN Returns(specs[i])
                  ELSE prev

\* sorted(all_versions, key=lambda spec: spec.version) needs comparisons
\* once there are two specs, and None does not compare
SortedRaises(specs) ==
    /\ Len(specs) >= 2
    /\ \E i \in 1..Len(specs) : specs[i].version = NoneInt

\* the versions of specs in ascending order
RECURSIVE SortedVersions(_)
SortedVersions(vs) ==
    IF vs = {} THEN <<>>
    ELSE LET m == CHOOSE x \in vs : \A y \in vs : x <= y
         IN  <<m>> \o SortedVersions(vs \ {m})

VersionList(specs) ==
    IF Len(specs) = 1 THEN <<specs[1].version>>
    ELSE SortedVersions({specs[i].version : i \in 1..Len(specs)})

\* _assert_version_exists testing for a later version before testing that
\* the requested one is registered
assert_version_exists_eager(t, namespace, name, version) ==
    IF assert_name_exists(t, namespace, name).kind # "ok"
    THEN assert_name_exists(t, namespace, name)
    ELSE LET all_versions == Values(Lookup(Lookup(t, namespace), name))
             latest_spec  == MaxSpec(all_versions, Len(all_versions))
         IN  IF /\ latest_spec.kind = "ok"
                /\ latest_spec.value.version # NoneInt
                /\ version # NoneInt
                /\ version < latest_spec.value.version
             THEN Result("DeprecatedEnv", NoSpec,
                         latest_spec.value.version, <<>>, "")
             ELSE IF Has(Lookup(Lookup(t, namespace), name), version) THEN Ok
             ELSE Raises("VersionNotFound")

\* EnvSpecTree._assert_version_exists
assert_version_exists(t, namespace, name, version) ==
    IF assert_name_exists(t, namespace, name).kind # "ok"
    THEN assert_name_exists(t, namespace, name)
    ELSE IF Has(Lookup(Lookup(t, namespace), name), version) THEN Ok
    ELSE LET all_versions == Values(Lookup(Lookup(t, namespace), name))
             latest_spec  == MaxSpec(all_versions, Len(all_versions))
         IN  IF latest_spec.kind # "ok" THEN latest_spec
             ELSE IF /\ Len(all_versions) > 0
                     /\ latest_spec.value.version # NoneInt
                     /\ version # NoneInt
                     /\ version < latest_spec.value.version
                  THEN Result("DeprecatedEnv", NoSpec,
                              latest_spec.value.version, <<>>, "")
             ELSE IF SortedRaises(all_versions) THEN Raises("TypeError")
             ELSE Result("VersionNotFound", NoSpec, NoneInt,
                         IF Len(all_versions) > 0
                         THEN VersionList(all_versions) ELSE <<>>, "")

\* EnvSpecTree.__getitem__
getitem(t, key) ==
    IF ~Matches(key) THEN Malformed
    ELSE LET p == parse_env_id(key)
             a == assert_version_exists(t, p.namespace, p.name, p.version)
         IN  IF a.kind # "ok" THEN a
             ELSE Returns(Lookup(Lookup(Lookup(t, p.namespace), p.name),
                                 p.version))

\* a membership test that stops at the name level
contains_any_version(t, key) ==
    LET p == parse_env_id(key)
    IN  /\ Has(t, p.namespace)
        /\ Has(Lookup(t, p.namespace), p.name)

\* EnvSpecTree.__contains__ for a key that parses
contains(t, key) ==
    LET p == parse_env_id(key)
    IN  /\ Has(t, p.namespace)
        /\ Has(Lookup(t, p.namespace), p.name)
        /\ Has(Lookup(Lookup(t, p.namespace), p.name), p.version)

\* an insertion that keeps the record of a leaf that is already there
TreeSet_setdefault(t, namespace, name, version, value) ==
    IF Has(Sub(Sub(t, namespace), name), version) THEN t
    ELSE Put(t, namespace,
             Put(Sub(t, namespace), name,
                 Put(Sub(Sub(t, namespace), name), version, value)))

\* self.tree[namespace][name][version] = value
TreeSet(t, namespace, name, version, value) ==
    Put(t, namespace,
        Put(Sub(t, namespace), name,
            Put(Sub(Sub(t, namespace), name), version, value)))

\* a delete that leaves the emptied name node in the tree
TreeDelete_keep_name(t, namespace, name, version) ==
    Put(t, namespace,
        Put(Lookup(t, namespace), name,
            Pop(Lookup(Lookup(t, namespace), name), version)))

\* the pops of EnvSpecTree.__delitem__ for a leaf that is present
TreeDelete(t, namespace, name, version) ==
    LET popped  == Pop(Lookup(Lookup(t, namespace), name), version)
        names   == IF Len(popped) = 0 THEN Pop(Lookup(t, namespace), name)
                   ELSE Put(Lookup(t, namespace), name, popped)
    IN  IF Len(names) = 0 THEN Pop(t, namespace)
        ELSE Put(t, namespace, names)

\* self.tree[namespace] on the defaultdict: a missing namespace gets an
\* empty node
TouchNamespace(t, namespace) ==
    IF Has(t, namespace) THEN t
    ELSE Append(t, [key |-> namespace, val |-> <<>>])

\* self.tree[namespace][name]: a missing name gets an empty dict as well
TouchName(t, namespace, name) ==
    LET touched == TouchNamespace(t, namespace)
    IN  IF Has(Lookup(touched, namespace), name) THEN touched
        ELSE Put(touched, namespace,
                 Append(Lookup(touched, namespace),
                        [key |-> name, val |-> <<>>]))

\* the tree _assert_name_exists leaves: it indexes self.tree[namespace]
\* once the namespace is known to be there
tree_after_assert_name(t, namespace, name) ==
    IF assert_namespace_exists(t, namespace).kind # "ok" THEN t
    ELSE TouchNamespace(t, namespace)

\* the tree _assert_version_exists leaves: it indexes
\* self.tree[namespace][name] once the name is known to be there
tree_after_assert_version(t, namespace, name) ==
    IF assert_name_exists(t, namespace, name).kind # "ok"
    THEN tree_after_assert_name(t, namespace, name)
    ELSE TouchName(t, namespace, name)

\* the tree __getitem__ leaves
tree_after_getitem(t, key) ==
    IF ~Matches(key) THEN t
    ELSE tree_after_assert_version(t, parse_env_id(key).namespace,
                                   parse_env_id(key).name)

\* a delete that indexes self.tree[namespace][name] before it asserts that
\* the version exists
tree_after_delitem_raised_indexed(t, key) ==
    IF ~Matches(key) THEN t
    ELSE TouchName(t, parse_env_id(key).namespace, parse_env_id(key).name)

\* the tree __delitem__ leaves when it raises: parse_env_id or
\* _assert_version_exists raised before the first pop
tree_after_delitem_raised(t, key) ==
    IF ~Matches(key) THEN t
    ELSE tree_after_assert_version(t, parse_env_id(key).namespace,
                                   parse_env_id(key).name)

\* a membership test that indexes the tree without asking `in` first
tree_after_contains_unguarded(t, key) ==
    IF ~Matches(key) THEN t
    ELSE TouchName(t, parse_env_id(key).namespace, parse_env_id(key).name)

\* the tree __contains__ leaves: each level is indexed after `in` has
\* found it
tree_after_contains(t, key) ==
    IF ~Matches(key) THEN t
    ELSE LET p == parse_env_id(key)
         IN  IF ~Has(t, p.namespace) THEN t
             ELSE IF ~Has(Lookup(t, p.namespace), p.name)
                  THEN TouchNamespace(t, p.namespace)
                  ELSE TouchName(t, p.namespace, p.name)

\* the tree versions leaves
tree_after_versions(t, namespace, name) ==
    IF assert_name_exists(t, namespace, name).kind # "ok"
    THEN tree_after_assert_name(t, namespace, name)
    ELSE LET base == TouchName(t, namespace, name)
         IN  IF namespace = NoneStr
                /\ name \in DOMAIN internal_env_relocation_map
             THEN LET relocated_namespace ==
                          internal_env_relocation_map[name].namespace
                  IN  IF assert_name_exists(base, relocated_namespace,
                                            name).kind = "ok"
                      THEN TouchName(base, relocated_namespace, name)
                      ELSE tree_after_assert_name(base, relocated_namespace,
                                                  name)
             ELSE base

\* a names that indexes the namespace without the check
tree_after_names_unchecked(t, namespace) == TouchNamespace(t, namespace)

\* the tree names leaves
tree_after_names(t, namespace) ==
    IF assert_namespace_exists(t, namespace).kind # "ok" THEN t
    ELSE TouchNamespace(t, namespace)

\* return list(...) of strings
Strings(ids) == [Result("ok", NoSpec, NoneInt, <<>>, "") EXCEPT !.ids = ids]

\* EnvSpecTree.names
names(t, namespace) ==
    IF assert_namespace_exists(t, namespace).kind # "ok"
    THEN assert_namespace_exists(t, namespace)
    ELSE Strings([i \in 1..Len(Lookup(t, namespace)) |->
                     Lookup(t, namespace)[i].key])

\* EnvSpecTree.namespaces: filter(None, ...) drops the key None
namespaces(t) ==
    Strings(SelectSeq([i \in 1..Len(t) |-> t[i].key],
                      LAMBDA k : k # NoneStr /\ k # <<>>))

\* the leaves of the tree in iteration order, as [namespace, name,
\* version, spec]
RECURSIVE Flatten(_)
Flatten(seqs) ==
    IF Len(seqs) = 0 THEN <<>> ELSE Head(seqs) \o Flatten(Tail(seqs))

Leaves(t) ==
    Flatten([i \in 1..Len(t) |->
        Flatten([j \in 1..Len(t[i].val) |->
            [k \in 1..Len(t[i].val[j].val) |->
                [namespace |-> t[i].key,
                 name      |-> t[i].val[j].key,
                 version   |-> t[i].val[j].val[k].key,
                 spec      |-> t[i].val[j].val[k].val]]])])

\* EnvSpecTree.__iter__, run to its end: the assertions at a leaf, then the
\* id of its record
iterate(t) ==
    IF \E i \in 1..Len(Leaves(t)) :
          \/ Leaves(t)[i].spec.namespace # Leaves(t)[i].namespace
          \/ Leaves(t)[i].spec.name # Leaves(t)[i].name
          \/ Leaves(t)[i].spec.version # Leaves(t)[i].version
    THEN Raises("AssertionError")
    ELSE Strings([i \in 1..Len(Leaves(t)) |-> SpecId(Leaves(t)[i].spec)])

\* ------------------------------------------------------------ EnvSpec.make
\* entry_point is None
NoEntryPoint == 0

\* _kwargs = self.kwargs.copy(); _kwargs.update(kwargs), a dict being a set
\* of <<key, value>> pairs with one pair a key
MergedKwargs(stored, given) ==
    {p \in stored : \A q \in given : q[1] # p[1]} \cup given

\* a make that updates self.kwargs itself
StoredAfterMake_in_place(record, kwargs) ==
    [record EXCEPT !.kwargs = MergedKwargs(record.kwargs, kwargs)]

\* the registered record once make has returned: make works on a copy of
\* self.kwargs and on a deep copy of self
StoredAfterMake(record, kwargs) == record

\* wrappers chosen by the truth value of max_episode_steps
Wrappers_truthy(record) ==
    IF record.max_episode_steps > 0 THEN {"TimeLimit"}
    ELSE IF record.order_enforce THEN {"OrderEnforcing"}
    ELSE {}

\* the wrappers make puts around the environment
Wrappers(record) ==
    IF record.max_episode_steps # NoneInt THEN {"TimeLimit"}
    ELSE IF record.order_enforce THEN {"OrderEnforcing"}
    ELSE {}

\* error.Error("Attempting to make deprecated env ...")
DeprecatedEntry(record) ==
    [Raises("Error") EXCEPT !.msg = "Attempting to make deprecated env",
                            !.value = record]

\* return env
Made(env) == [Result("ok", NoSpec, NoneInt, <<>>, "") EXCEPT !.env = env]

\* the body of EnvSpec.make after the test of entry_point
Constructed(record, kwargs) ==
    LET _kwargs == MergedKwargs(record.kwargs, kwargs)
        copied  == [record EXCEPT !.kwargs = _kwargs]
    IN  Made([entry_point |-> record.entry_point,
              kwargs      |-> _kwargs,
              spec        |-> copied,
              wrappers    |-> Wrappers(copied)])

\* a make that does not test entry_point
spec_make_unchecked(record, kwargs) == Constructed(record, kwargs)

\* EnvSpec.make
spec_make(record, kwargs) ==
    IF record.entry_point = NoEntryPoint THEN DeprecatedEntry(record)
    ELSE Constructed(record, kwargs)

\* ------------------------------------------------------------ inputs
\* ids stored in the runs of the tree
StoreIds ==
    {<<"A">>,
     <<"A", "-", "v", "0">>,
     <<"A", "-", "v", "1">>,
     <<"A", "-", "v", "2">>,
     <<"B", "-", "v", "0">>,
     <<"N", "/", "B", "-", "v", "0">>}

\* an id the pattern does not match
MalformedId == <<"N", "/">>

\* ids that are looked up
LookupIds ==
    StoreIds \cup
    {<<"A", "-", "v", "3">>,
     <<"B">>,
     <<"N", "/", "A", "-", "v", "0">>,
     <<"M", "/", "A", "-", "v", "0">>,
     MalformedId}

\* the entry_point argument tells two records of one id apart
EntryPoints == {1, 2}

\* names given to namespace(); the second is not a namespace the pattern of
\* parse_env_id accepts
Namespaces == {<<"N">>, <<"a", ".", "b">>}

\* ------------------------------------------------------------ state
\* a plugin of the entry-point group: its name, whether its value names a
\* function (module:attr), and whether plugin.load() finds it
Plugin(name, attr, loads) == [name |-> name, attr |-> attr, loads |-> loads]

NoPlugin == Plugin(NoneStr, FALSE, FALSE)

\* load_env_plugins has not been called
NoLoader ==
    [pc |-> "idle", queue |-> <<>>, plugin |-> NoPlugin, context |-> "",
     warnings |-> {}, error |-> ""]

\* ------------------------------------------------------- gym.utils.play
\* cap on the length of PlayableGame.pressed_keys
MaxPressed == 3

\* pygame.K_ESCAPE
K_ESCAPE == 27

\* a keys_to_action argument: None, or a dict from sorted key tuples to
\* actions, as a set of [keys, action] items
NoMapping == [none |-> TRUE, items |-> {}]
Mapping(items) == [none |-> FALSE, items |-> items]

\* keys_to_action.get(keys, default)
MappingGet(mapping, keys, default) ==
    IF \E item \in mapping.items : item.keys = keys
    THEN (CHOOSE item \in mapping.items : item.keys = keys).action
    ELSE default

\* set(sum((list(k) for k in keys_to_action.keys()), []))
RelevantKeys(mapping) ==
    UNION {{item.keys[i] : i \in 1..Len(item.keys)} : item \in mapping.items}

\* sorted(seq)
RECURSIVE Sorted(_)
Sorted(seq) ==
    IF Len(seq) = 0 THEN <<>>
    ELSE LET least == CHOOSE i \in 1..Len(seq) :
                          \A j \in 1..Len(seq) :
                              seq[i] < seq[j] \/ (seq[i] = seq[j] /\ i <= j)
         IN  <<seq[least]>>
             \o Sorted(SubSeq(seq, 1, least - 1)
                       \o SubSeq(seq, least + 1, Len(seq)))

\* list.remove(x): the first occurrence goes
Remove(seq, x) ==
    LET first == CHOOSE i \in 1..Len(seq) :
                     seq[i] = x /\ \A j \in 1..(i - 1) : seq[j] # x
    IN  SubSeq(seq, 1, first - 1) \o SubSeq(seq, first + 1, Len(seq))

\* no call of the environment yet
NoCall == [op |-> "none", action |-> 0, keys |-> <<>>]

\* play has not been called
NoGame ==
    [pc |-> "idle", keys_to_action |-> NoMapping, default |-> NoMapping,
     relevant_keys |-> {}, pressed_keys |-> <<>>, running |-> FALSE,
     done |-> FALSE, video_size |-> 0, call |-> NoCall, error |-> ""]

\* the keys_to_action play goes on with after PlayableGame(env,
\* keys_to_action, zoom): _get_relevant_keys assigns the default mapping of
\* the environment to its own parameter, play keeps what it was given
play_keys_to_action(keys_to_action, default) == keys_to_action

\* PlayableGame._get_relevant_keys
get_relevant_keys(keys_to_action, default) ==
    IF ~keys_to_action.none THEN [error |-> "", keys |-> RelevantKeys(keys_to_action)]
    ELSE IF ~default.none THEN [error |-> "", keys |-> RelevantKeys(default)]
    ELSE [error |-> "MissingKeysToAction", keys |-> {}]

\* PlayableGame.process_event on the fields of the game
process_event(g, event) ==
    IF event.type = "KEYDOWN"
    THEN IF event.key \in g.relevant_keys
         THEN [g EXCEPT !.pressed_keys = Append(@, event.key)]
         ELSE IF event.key = K_ESCAPE THEN [g EXCEPT !.running = FALSE]
         ELSE g
    ELSE IF event.type = "KEYUP"
    THEN IF event.key \in g.relevant_keys
         THEN IF \E i \in 1..Len(g.pressed_keys) : g.pressed_keys[i] = event.key
              THEN [g EXCEPT !.pressed_keys = Remove(@, event.key)]
              ELSE [g EXCEPT !.pc = "raised", !.error = "ValueError"]
         ELSE g
    ELSE IF event.type = "QUIT" THEN [g EXCEPT !.running = FALSE]
    ELSE IF event.type = "VIDEORESIZE" THEN [g EXCEPT !.video_size = event.key]
    ELSE g

VARIABLES
    tree,      \* EnvSpecTree.tree
    _length,   \* EnvSpecTree._length
    _ns,       \* EnvRegistry._ns
    scopes,    \* the namespace() scopes the caller is inside, outermost first
    sys_modules, \* the modules importlib has imported
    loader,    \* load_env_plugins: where it is in its loop over the plugins
    game,      \* play: its locals and its PlayableGame
    last       \* the last call: what it was given and what it gave back

vars == <<tree, _length, _ns, scopes, sys_modules, loader, game, last>>

\* flag: the answer of contains, the overriding warning of register, the
\* body of the scope having raised for exit
Call(op, key, res, flag) ==
    [op |-> op, key |-> key, res |-> res, flag |-> flag]

\* EnvSpecTree.__init__ and EnvRegistry.__init__
Init ==
    /\ tree = <<>>
    /\ _length = 0
    /\ _ns = NoneStr
    /\ scopes = <<>>
    /\ sys_modules = {}
    /\ loader = NoLoader
    /\ game = NoGame
    /\ last = Call("init", <<>>, Ok, FALSE)

\* EnvSpecTree.__setitem__: specs[key] = EnvSpec(key, entry_point=...)
SetItem(key, entry_point) ==
    /\ _length < MaxLength
    /\ IF ~Matches(key)
       THEN /\ last' = Call("set", key, Malformed, FALSE)
            /\ UNCHANGED <<tree, _length>>
       ELSE LET p     == parse_env_id(key)
                value == EnvSpec(key, entry_point)
            IN  /\ tree' = TreeSet(tree, p.namespace, p.name, p.version, value)
                /\ _length' = _length + 1
                /\ last' = Call("set", key, Returns(value), FALSE)
    /\ UNCHANGED <<_ns, scopes, sys_modules, loader, game>>

\* EnvSpecTree.__delitem__
DelItem(key) ==
    /\ IF ~Matches(key)
       THEN /\ last' = Call("delete", key, Malformed, FALSE)
            /\ tree' = tree_after_delitem_raised(tree, key)
            /\ UNCHANGED _length
       ELSE LET p == parse_env_id(key)
                a == assert_version_exists(tree, p.namespace, p.name, p.version)
            IN  IF a.kind # "ok"
                THEN /\ last' = Call("delete", key, a, FALSE)
                     /\ tree' = tree_after_delitem_raised(tree, key)
                     /\ UNCHANGED _length
                ELSE /\ tree' = TreeDelete(tree, p.namespace, p.name, p.version)
                     /\ _length' = _length - 1
                     /\ last' = Call("delete", key, Ok, FALSE)
    /\ UNCHANGED <<_ns, scopes, sys_modules, loader, game>>

\* EnvSpecTree.__getitem__
GetItem(key) ==
    /\ last' = Call("get", key, getitem(tree, key), FALSE)
    /\ tree' = tree_after_getitem(tree, key)
    /\ UNCHANGED <<_length, _ns, scopes, sys_modules, loader, game>>

\* EnvSpecTree.__contains__
Contains(key) ==
    /\ last' = IF ~Matches(key) THEN Call("contains", key, Malformed, FALSE)
               ELSE Call("contains", key, Ok, contains(tree, key))
    /\ tree' = tree_after_contains(tree, key)
    /\ UNCHANGED <<_length, _ns, scopes, sys_modules, loader, game>>

\* EnvSpecTree.versions
Versions(namespace, name) ==
    /\ last' = Call("versions", <<namespace, name>>,
                    versions(tree, namespace, name), FALSE)
    /\ tree' = tree_after_versions(tree, namespace, name)
    /\ UNCHANGED <<_length, _ns, scopes, sys_modules, loader, game>>

\* EnvSpecTree.names
Names(namespace) ==
    /\ last' = Call("names", namespace, names(tree, namespace), FALSE)
    /\ tree' = tree_after_names(tree, namespace)
    /\ UNCHANGED <<_length, _ns, scopes, sys_modules, loader, game>>

\* EnvSpecTree.namespaces
ListNamespaces ==
    /\ last' = Call("namespaces", <<>>, namespaces(tree), FALSE)
    /\ UNCHANGED <<tree, _length, _ns, scopes, sys_modules, loader, game>>

\* list(tree): EnvSpecTree.__iter__ run to its end
Iterate ==
    /\ last' = Call("iter", <<>>, iterate(tree), FALSE)
    /\ UNCHANGED <<tree, _length, _ns, scopes, sys_modules, loader, game>>

\* EnvSpecTree.__setitem__ in the runs of the read operations, which hold
\* up to MaxLeaves insertions
Store(key, entry_point) ==
    /\ _length < MaxLeaves
    /\ IF ~Matches(key)
       THEN /\ last' = Call("set", key, Malformed, FALSE)
            /\ UNCHANGED <<tree, _length>>
       ELSE \E p \in {parse_env_id(key)}, value \in {EnvSpec(key, entry_point)} :
                /\ tree' = TreeSet(tree, p.namespace, p.name, p.version, value)
                /\ _length' = _length + 1
                /\ last' = Call("set", key, Returns(value), FALSE)
    /\ UNCHANGED <<_ns, scopes, sys_modules, loader, game>>

\* a register that applies the override only to an id without a namespace
RegisteredSpec_keep_explicit(id, entry_point, override) ==
    IF override # NoneStr /\ parse_env_id(id).namespace = NoneStr
    THEN [EnvSpec(id, entry_point) EXCEPT !.namespace = override]
    ELSE EnvSpec(id, entry_point)

\* the spec EnvRegistry.register stores: the namespace override replaces
\* the namespace parsed from the id
RegisteredSpec(id, entry_point, override) ==
    IF override # NoneStr
    THEN [EnvSpec(id, entry_point) EXCEPT !.namespace = override]
    ELSE EnvSpec(id, entry_point)

\* the warnings of EnvRegistry.register
RegisterWarnings(t, id, spec, override) ==
    (IF override # NoneStr /\ parse_env_id(id).namespace # NoneStr
     THEN {"namespace overridden"} ELSE {})
    \cup (IF contains(t, SpecId(spec)) THEN {"overriding environment"} ELSE {})

\* EnvRegistry.register
Register(id, entry_point) ==
    /\ _length < MaxLength
    /\ IF ~Matches(id)
       THEN /\ last' = Call("register", id, Malformed, FALSE)
            /\ UNCHANGED <<tree, _length>>
       ELSE \E spec \in {RegisteredSpec(id, entry_point, _ns)} :
            \E cid \in {SpecId(spec)} :
                IF ~Matches(cid)
                THEN /\ last' = Call("register", id, Malformed, FALSE)
                     /\ UNCHANGED <<tree, _length>>
                ELSE \E p \in {parse_env_id(cid)} :
                         /\ tree' = TreeSet(tree, p.namespace, p.name,
                                            p.version, spec)
                         /\ _length' = _length + 1
                         /\ last' = Call("register", id,
                                Warned(Returns(spec),
                                       RegisterWarnings(tree, id, spec, _ns)),
                                contains(tree, cid))
    /\ UNCHANGED <<_ns, scopes, sys_modules, loader, game>>

\* EnvRegistry.namespace up to its yield: the caller enters the with block
EnterNamespace(ns) ==
    /\ Len(scopes) < MaxDepth
    /\ _ns' = ns
    /\ scopes' = Append(scopes, ns)
    /\ last' = Call("enter", ns, Ok, FALSE)
    /\ UNCHANGED <<tree, _length, sys_modules, loader, game>>

\* the value of _ns once the generator of EnvRegistry.namespace is left:
\* the statement after the yield runs only when the body did not raise
NsAfterExit(current, raised) == IF raised THEN current ELSE NoneStr

\* the caller leaves the innermost with block, normally or because its
\* body raised
ExitNamespace(raised) ==
    /\ Len(scopes) > 0
    /\ _ns' = NsAfterExit(_ns, raised)
    /\ scopes' = SubSeq(scopes, 1, Len(scopes) - 1)
    /\ last' = Call("exit", scopes[Len(scopes)], Ok, raised)
    /\ UNCHANGED <<tree, _length, sys_modules, loader, game>>

\* register(id, entry_point=..., max_episode_steps=..., order_enforce=...,
\* kwargs=...)
RegisterWith(id, attrs) ==
    /\ _length < MaxLength
    /\ IF ~Matches(id)
       THEN /\ last' = Call("register", id, Malformed, FALSE)
            /\ UNCHANGED <<tree, _length>>
       ELSE \E spec \in {[RegisteredSpec(id, attrs.entry_point, _ns) EXCEPT
                              !.max_episode_steps = attrs.max_episode_steps,
                              !.order_enforce = attrs.order_enforce,
                              !.kwargs = attrs.kwargs]} :
            \E cid \in {SpecId(spec)} :
                IF ~Matches(cid)
                THEN /\ last' = Call("register", id, Malformed, FALSE)
                     /\ UNCHANGED <<tree, _length>>
                ELSE \E p \in {parse_env_id(cid)} :
                         /\ tree' = TreeSet(tree, p.namespace, p.name,
                                            p.version, spec)
                         /\ _length' = _length + 1
                         /\ last' = Call("register", id,
                                Warned(Returns(spec),
                                       RegisterWarnings(tree, id, spec, _ns)),
                                contains(tree, cid))
    /\ UNCHANGED <<_ns, scopes, sys_modules, loader, game>>

\* --------------------------------------------------- load_env_plugins
\* cap on the plugins of one load_env_plugins call
MaxPlugins == 2

RootName == <<"_", "_", "r", "o", "o", "t", "_", "_">>
InternalName ==
    <<"_", "_", "i", "n", "t", "e", "r", "n", "a", "l", "_", "_">>

\* plugin.name.startswith("__") and plugin.name.endswith("__")
IsMagicKey(name) ==
    /\ Len(name) >= 2
    /\ name[1] = "_" /\ name[2] = "_"
    /\ name[Len(name) - 1] = "_" /\ name[Len(name)] = "_"

\* a loader that gives every magic key the null context
PluginContext_any_magic(name) ==
    IF IsMagicKey(name) THEN "nullcontext" ELSE "namespace"

\* the context the plugin's function runs in: namespace(plugin.name), or
\* contextlib.nullcontext() for __root__ and __internal__
PluginContext(name) ==
    IF IsMagicKey(name) /\ (name = RootName \/ name = InternalName)
    THEN "nullcontext"
    ELSE "namespace"

\* the warning for a magic key other than the two reserved ones
PluginWarnings(name) ==
    IF IsMagicKey(name) /\ name # RootName /\ name # InternalName
    THEN {"unsupported magic key"}
    ELSE {}

\* a loader whose try is around the with block: the error of the function
\* passes through the context manager
ns_after_plugin_try_outside(context, current, outcome) ==
    IF context = "nullcontext" THEN current
    ELSE NsAfterExit(current, outcome # "return")

\* _ns when the with block of the plugin is left: an Exception of the
\* function is caught inside the block, which then ends normally; anything
\* else the function raises passes through the context manager
ns_after_plugin(context, current, outcome) ==
    IF context = "nullcontext" THEN current
    ELSE NsAfterExit(current, outcome = "BaseException")

\* the loop of load_env_plugins after a plugin: the next one, or the end
AfterPlugin(l) ==
    [l EXCEPT !.pc = IF Len(l.queue) > 1 THEN "next" ELSE "done",
              !.queue = Tail(l.queue),
              !.plugin = NoPlugin,
              !.context = ""]

\* load_env_plugins(): the entry points of the group are read
LoadEnvPlugins(plugins) ==
    /\ loader.pc = "idle"
    /\ scopes = <<>>
    /\ loader' = [NoLoader EXCEPT !.pc = IF Len(plugins) > 0 THEN "next"
                                         ELSE "done",
                                  !.queue = plugins]
    /\ last' = Call("load_env_plugins", <<>>, Ok, FALSE)
    /\ UNCHANGED <<tree, _length, _ns, scopes, sys_modules, game>>

\* one turn of the for loop up to the call of the plugin's function: the
\* check of attr, the choice of the context, its __enter__, plugin.load()
PluginStart ==
    /\ loader.pc = "next"
    /\ \E plugin \in {Head(loader.queue)} :
       \E context \in {PluginContext(plugin.name)} :
          IF ~plugin.attr
          THEN /\ loader' = [loader EXCEPT !.pc = "raised", !.error = "Error",
                                           !.plugin = plugin]
               /\ last' = Call("plugin", plugin.name, Raises("Error"), TRUE)
               /\ UNCHANGED <<_ns, scopes>>
          ELSE IF ~plugin.loads
          THEN /\ loader' = [loader EXCEPT
                                !.pc = "raised", !.error = "ImportError",
                                !.plugin = plugin,
                                !.warnings = @ \cup PluginWarnings(plugin.name)]
               /\ _ns' = IF context = "nullcontext" THEN _ns
                         ELSE NsAfterExit(plugin.name, TRUE)
               /\ last' = Call("plugin", plugin.name, Raises("ImportError"),
                               TRUE)
               /\ UNCHANGED scopes
          ELSE /\ loader' = [loader EXCEPT
                                !.pc = "body", !.plugin = plugin,
                                !.context = context,
                                !.warnings = @ \cup PluginWarnings(plugin.name)]
               /\ _ns' = IF context = "nullcontext" THEN _ns ELSE plugin.name
               /\ scopes' = IF context = "nullcontext" THEN scopes
                            ELSE Append(scopes, plugin.name)
               /\ last' = Call("plugin", plugin.name, Ok, FALSE)
    /\ UNCHANGED <<tree, _length, sys_modules, game>>

\* the plugin's function calls register
PluginRegister(id, entry_point) ==
    /\ loader.pc = "body"
    /\ Register(id, entry_point)

\* the plugin's function ends: it returns, raises an Exception, or raises
\* something `except Exception` does not catch; the with block is left
PluginEnd(outcome) ==
    /\ loader.pc = "body"
    /\ _ns' = ns_after_plugin(loader.context, _ns, outcome)
    /\ scopes' = IF loader.context = "nullcontext" THEN scopes
                 ELSE SubSeq(scopes, 1, Len(scopes) - 1)
    /\ loader' = IF outcome = "BaseException"
                 THEN [loader EXCEPT !.pc = "raised",
                                     !.error = "BaseException"]
                 ELSE [AfterPlugin(loader) EXCEPT
                          !.warnings = IF outcome = "Exception"
                                       THEN @ \cup {"plugin raised"} ELSE @]
    /\ last' = Call("plugin_end", loader.plugin.name,
                    IF outcome = "return" THEN Ok ELSE Raises(outcome),
                    outcome = "BaseException")
    /\ UNCHANGED <<tree, _length, sys_modules, game>>

\* the plugins of the runs of the loader
Plugins ==
    {Plugin(<<"p">>, TRUE, TRUE),
     Plugin(RootName, TRUE, TRUE),
     Plugin(InternalName, TRUE, TRUE),
     Plugin(<<"_", "_", "x", "_", "_">>, TRUE, TRUE),
     Plugin(<<"q">>, FALSE, TRUE),
     Plugin(<<"q">>, TRUE, FALSE)}

PluginLists == UNION {[1..n -> Plugins] : n \in 0..MaxPlugins}

\* the ids the plugins' functions register
PluginIds ==
    {<<"A", "-", "v", "0">>,
     <<"N", "/", "A", "-", "v", "0">>,
     MalformedId}

Outcomes == {"return", "Exception", "BaseException"}

\* the loader and the registry
NextPlugins ==
    \/ \E plugins \in PluginLists : LoadEnvPlugins(plugins)
    \/ PluginStart
    \/ \E id \in PluginIds : PluginRegister(id, 1)
    \/ \E outcome \in Outcomes : PluginEnd(outcome)

SpecPlugins == Init /\ [][NextPlugins]_vars

\* ------------------------------------------------------------------ play
\* play(env, keys_to_action=...) up to its loop: env.reset, PlayableGame,
\* done = True
Play(keys_to_action, default) ==
    /\ game.pc = "idle"
    /\ \E relevant \in {get_relevant_keys(keys_to_action, default)} :
          game' = IF relevant.error # ""
                  THEN [NoGame EXCEPT
                           !.pc = "raised", !.error = relevant.error,
                           !.keys_to_action = keys_to_action,
                           !.default = default,
                           !.call = [op |-> "reset", action |-> 0,
                                     keys |-> <<>>]]
                  ELSE [NoGame EXCEPT
                           !.pc = "loop",
                           !.keys_to_action =
                               play_keys_to_action(keys_to_action, default),
                           !.default = default,
                           !.relevant_keys = relevant.keys,
                           !.running = TRUE,
                           !.done = TRUE,
                           !.video_size = 1,
                           !.call = [op |-> "reset", action |-> 0,
                                     keys |-> <<>>]]
    /\ UNCHANGED <<tree, _length, _ns, scopes, sys_modules, loader, last>>

\* a loop that steps whether or not the episode is done
PlayStep_without_reset(step_done) ==
    /\ game.pc = "loop"
    /\ ~game.keys_to_action.none
    /\ game' = [game EXCEPT
                   !.pc = "events", !.done = step_done,
                   !.call = [op |-> "step",
                             action |-> MappingGet(game.keys_to_action,
                                                   Sorted(game.pressed_keys), 0),
                             keys |-> Sorted(game.pressed_keys)]]
    /\ UNCHANGED <<tree, _length, _ns, scopes, sys_modules, loader, last>>

\* the first half of a turn of the loop: env.reset when the episode is
\* done, env.step with the action of the pressed keys otherwise
PlayStep(step_done) ==
    /\ game.pc = "loop"
    /\ game' =
          IF game.done
          THEN [game EXCEPT !.pc = "events", !.done = FALSE,
                            !.call = [op |-> "reset", action |-> 0,
                                      keys |-> <<>>]]
          ELSE IF game.keys_to_action.none
          THEN [game EXCEPT !.pc = "raised", !.error = "AttributeError"]
          ELSE [game EXCEPT
                   !.pc = "events", !.done = step_done,
                   !.call = [op |-> "step",
                             action |-> MappingGet(game.keys_to_action,
                                                   Sorted(game.pressed_keys), 0),
                             keys |-> Sorted(game.pressed_keys)]]
    /\ UNCHANGED <<tree, _length, _ns, scopes, sys_modules, loader, last>>

\* game.process_event(event) for an event of pygame.event.get()
ProcessEvent(event) ==
    /\ game.pc = "events"
    /\ event.type = "KEYDOWN" => Len(game.pressed_keys) < MaxPressed
    /\ game' = process_event(game, event)
    /\ UNCHANGED <<tree, _length, _ns, scopes, sys_modules, loader, last>>

\* the end of a turn: flip, tick and the test of game.running; pygame.quit()
\* when the loop is left
PlayTick ==
    /\ game.pc = "events"
    /\ game' = [game EXCEPT !.pc = IF game.running THEN "loop" ELSE "stopped"]
    /\ UNCHANGED <<tree, _length, _ns, scopes, sys_modules, loader, last>>

\* keys_to_action={(1,): 1, (2,): 2, (1, 2): 3}
GivenMapping ==
    Mapping({[keys |-> <<1>>, action |-> 1],
             [keys |-> <<2>>, action |-> 2],
             [keys |-> <<1, 2>>, action |-> 3]})

\* env.get_keys_to_action() == {(1,): 4, (1, 2): 5}
DefaultMapping ==
    Mapping({[keys |-> <<1>>, action |-> 4],
             [keys |-> <<1, 2>>, action |-> 5]})

\* keys_to_action={(27,): 1}: the escape key is a relevant key
EscapeMapping == Mapping({[keys |-> <<K_ESCAPE>>, action |-> 1]})

Event(type, key) == [type |-> type, key |-> key]

\* the events of the runs of play: keys 1 and 2 and the escape key go down
\* and up, the window is closed or resized
Events ==
    {Event(type, key) : type \in {"KEYDOWN", "KEYUP"}, key \in {1, 2, K_ESCAPE}}
    \cup {Event("QUIT", 0), Event("VIDEORESIZE", 2)}

\* play and its game
NextPlay ==
    \/ \E keys_to_action \in {NoMapping, GivenMapping, EscapeMapping},
          default \in {NoMapping, DefaultMapping} :
              Play(keys_to_action, default)
    \/ \E step_done \in BOOLEAN : PlayStep(step_done)
    \/ \E event \in Events : ProcessEvent(event)
    \/ PlayTick

SpecPlay == Init /\ [][NextPlay]_vars

\* ------------------------------------------------- EnvRegistry.spec
ColonPositions(path) == {i \in 1..Len(path) : path[i] = ":"}

\* ":" in path
HasModule(path) == ColonPositions(path) # {}

\* mod_name, _, id = path.partition(":")
ModName(path) == SubSeq(path, 1, MinOf(ColonPositions(path)) - 1)

\* the id of a path, after its module prefix when it has one
PathId(path) ==
    IF HasModule(path)
    THEN SubSeq(path, MinOf(ColonPositions(path)) + 1, Len(path))
    ELSE path

\* the modules importlib finds, and the register call the body of such a
\* module makes when it is first imported
InstalledModules == {<<"m">>}
ModuleId == <<"A", "-", "v", "1">>
ModuleEntryPoint == 2

\* error.Error("A module (...) was specified for the environment but was
\* not found ...")
ModuleNotFound == [Raises("Error") EXCEPT !.msg = "A module was not found"]

\* the registry after importlib.import_module(mod_name) of an installed
\* module: a module in sys.modules is not run again
Imported(mod_name) ==
    IF mod_name \in sys_modules
    THEN [tree |-> tree, _length |-> _length, sys_modules |-> sys_modules]
    ELSE LET record == RegisteredSpec(ModuleId, ModuleEntryPoint, _ns)
         IN  [tree        |-> TreeSet(tree, record.namespace, record.name,
                                      record.version, record),
              _length     |-> _length + 1,
              sys_modules |-> sys_modules \cup {mod_name}]

\* a spec that reads the tree before it imports the module
registry_spec_lookup_first(path) ==
    IF HasModule(path) /\ ModName(path) \in InstalledModules
    THEN [res |-> getitem(tree, PathId(path)),
          tree |-> Imported(ModName(path)).tree,
          _length |-> Imported(ModName(path))._length,
          sys_modules |-> Imported(ModName(path)).sys_modules]
    ELSE [res |-> getitem(tree, PathId(path)), tree |-> tree,
          _length |-> _length, sys_modules |-> sys_modules]

\* EnvRegistry.spec: what it returns or raises, and the registry it leaves
registry_spec(path) ==
    IF HasModule(path)
    THEN IF ModName(path) \notin InstalledModules
         THEN [res |-> ModuleNotFound, tree |-> tree, _length |-> _length,
               sys_modules |-> sys_modules]
         ELSE [res |-> getitem(Imported(ModName(path)).tree, PathId(path)),
               tree |-> Imported(ModName(path)).tree,
               _length |-> Imported(ModName(path))._length,
               sys_modules |-> Imported(ModName(path)).sys_modules]
    ELSE [res |-> getitem(tree, path), tree |-> tree, _length |-> _length,
          sys_modules |-> sys_modules]

\* the import of the path would register an id
ImportRegisters(path) ==
    /\ HasModule(path)
    /\ ModName(path) \in InstalledModules \ sys_modules

\* EnvRegistry.spec
RegistrySpec(path) ==
    /\ ImportRegisters(path) => _length < MaxLength
    /\ \E r \in {registry_spec(path)} :
          /\ tree' = r.tree
          /\ _length' = r._length
          /\ sys_modules' = r.sys_modules
          /\ last' = Call("spec", path, r.res, FALSE)
    /\ UNCHANGED <<_ns, scopes, loader, game>>

\* ------------------------------------------------- EnvRegistry.make
\* filter(lambda spec: spec.version, versions): None and 0 are dropped
WithVersion(specs) ==
    SelectSeq(specs, LAMBDA s : s.version # NoneInt /\ s.version # 0)

\* max(..., key=lambda spec: spec.version, default=None): the first of the
\* specs of the highest version
latest_spec(specs) ==
    LET kept == WithVersion(specs)
    IN  IF Len(kept) = 0 THEN NoSpec
        ELSE kept[MinOf({i \in 1..Len(kept) :
                            \A j \in 1..Len(kept) :
                                kept[j].version <= kept[i].version})]

\* a test that also fires for the latest version itself
OutOfDate_or_latest(record, latest) ==
    /\ latest # NoSpec
    /\ latest.version # NoneInt
    /\ record.version # NoneInt
    /\ record.version <= latest.version

\* the condition of the upgrade warning
OutOfDate(record, latest) ==
    /\ latest # NoSpec
    /\ latest.version # NoneInt
    /\ record.version # NoneInt
    /\ record.version < latest.version

\* EnvRegistry.make
Make(path, kwargs) ==
    /\ ImportRegisters(path) => _length < MaxLength
    /\ \E r \in {registry_spec(path)} :
          /\ _length' = r._length
          /\ sys_modules' = r.sys_modules
          /\ IF r.res.kind # "ok"
             THEN /\ tree' = r.tree
                  /\ last' = Call("make", <<path, kwargs>>, r.res, FALSE)
             ELSE \E record \in {r.res.value} :
                  \E vs \in {versions(r.tree, record.namespace,
                                      record.name)} :
                  IF vs.kind # "ok"
                  THEN /\ tree' = r.tree
                       /\ last' = Call("make", <<path, kwargs>>, vs, FALSE)
                  ELSE \E latest \in {latest_spec(vs.specs)} :
                       /\ tree' = TreeSet(r.tree, record.namespace,
                                          record.name, record.version,
                                          StoredAfterMake(record, kwargs))
                       /\ last' = Call("make", <<path, kwargs>>,
                              [Warned(spec_make(record, kwargs),
                                      IF OutOfDate(record, latest)
                                      THEN {"out of date"} ELSE {})
                                  EXCEPT !.latest =
                                      IF OutOfDate(record, latest)
                                      THEN latest.version ELSE NoneInt],
                              FALSE)
    /\ UNCHANGED <<_ns, scopes, loader, game>>

\* ids given to register in the runs of the registry
RegisterIds ==
    {<<"A", "-", "v", "0">>,
     <<"A", "-", "v", "1">>,
     <<"M", "/", "A", "-", "v", "0">>,
     MalformedId}

\* ids looked up and deleted in the runs of the registry
RegistryKeys ==
    {<<"A", "-", "v", "0">>,
     <<"A", "-", "v", "1">>}

\* the characters of the strings given to parse_env_id on its own: a
\* letter, the v and the dash of the version suffix, the slash, a digit, the
\* dot, the colon, and the space, which no group of the pattern takes
IdChars == {"A", "v", "-", "/", "0", ".", ":", " "}

InputIds == UNION {[1..n -> IdChars] : n \in 0..MaxIdLen}

\* return namespace, name, version
Parsed(triple) == [Ok EXCEPT !.value = triple]

\* a caller about to give id to parse_env_id
InitParser ==
    /\ tree = <<>>
    /\ _length = 0
    /\ _ns = NoneStr
    /\ scopes = <<>>
    /\ sys_modules = {}
    /\ loader = NoLoader
    /\ game = NoGame
    /\ last \in {Call("input", id, Ok, FALSE) : id \in InputIds}

\* parse_env_id(id); flag: the pattern matched
Parse ==
    /\ last.op = "input"
    /\ \E id \in {last.key} :
          last' = IF Matches(id)
                  THEN Call("parse", id, Parsed(parse_env_id(id)), TRUE)
                  ELSE Call("parse", id, Malformed, FALSE)
    /\ UNCHANGED <<tree, _length, _ns, scopes, sys_modules, loader, game>>

\* the parser on its own
NextParser == Parse

SpecParser == InitParser /\ [][NextParser]_vars

\* the tree on its own
NextTree ==
    \/ \E key \in StoreIds \cup {MalformedId}, e \in EntryPoints :
          SetItem(key, e)
    \/ \E key \in LookupIds : DelItem(key)
    \/ \E key \in LookupIds : GetItem(key)
    \/ \E key \in LookupIds : Contains(key)

SpecTree == Init /\ [][NextTree]_vars

\* ids stored in the runs of versions
VersionIds ==
    {<<"A", "-", "v", "0">>,
     <<"B">>,
     <<"B", "-", "v", "0">>,
     <<"N", "/", "A", "-", "v", "0">>,
     <<"N", "/", "B", "-", "v", "0">>,
     <<"N", "/", "B", "-", "v", "1">>}

\* the (namespace, name) pairs versions is asked for
VersionQueries ==
    {<<NoneStr, <<"A">>>>, <<NoneStr, <<"B">>>>,
     <<<<"N">>, <<"A">>>>, <<<<"N">>, <<"B">>>>,
     <<<<"M">>, <<"A">>>>}

\* ids stored, looked up and deleted in the runs of the read operations
ReadIds ==
    {<<"A", "-", "v", "0">>,
     <<"A", "-", "v", "1">>,
     <<"B", "-", "v", "0">>,
     <<"N", "/", "A", "-", "v", "0">>,
     <<"N", "/", "B", "-", "v", "0">>}

ReadKeys ==
    {<<"A", "-", "v", "0">>,
     <<"A", "-", "v", "2">>,
     <<"B", "-", "v", "0">>,
     <<"M", "/", "A", "-", "v", "0">>}

ReadNamespaces == {NoneStr, <<"N">>, <<"M">>}

\* the tree with its read operations
NextReads ==
    \/ \E key \in ReadIds : Store(key, 1)
    \/ \E key \in ReadIds : DelItem(key)
    \/ \E key \in ReadKeys : GetItem(key)
    \/ \E key \in ReadKeys : Contains(key)
    \/ \E q \in VersionQueries : Versions(q[1], q[2])
    \/ \E namespace \in ReadNamespaces : Names(namespace)
    \/ ListNamespaces
    \/ Iterate

SpecReads == Init /\ [][NextReads]_vars

\* the tree with its versions view
NextVersions ==
    \/ \E key \in VersionIds : SetItem(key, 1)
    \/ \E key \in VersionIds : DelItem(key)
    \/ \E q \in VersionQueries : Versions(q[1], q[2])

SpecVersions == Init /\ [][NextVersions]_vars

\* the keyword arguments of a register call
Attrs(entry_point, max_episode_steps, order_enforce, kwargs) ==
    [entry_point |-> entry_point, max_episode_steps |-> max_episode_steps,
     order_enforce |-> order_enforce, kwargs |-> kwargs]

\* kwargs={"a": 1, "b": 1}
StoredKwargs == {<<"a", 1>>, <<"b", 1>>}

\* the register calls in the runs of make
RegisterCalls ==
    {[id |-> <<"A">>, attrs |-> Attrs(1, NoneInt, TRUE, {})],
     [id |-> <<"A", "-", "v", "0">>,
      attrs |-> Attrs(1, NoneInt, TRUE, StoredKwargs)],
     [id |-> <<"A", "-", "v", "0">>,
      attrs |-> Attrs(NoEntryPoint, NoneInt, TRUE, {})],
     [id |-> <<"A", "-", "v", "1">>, attrs |-> Attrs(1, 0, TRUE, {})],
     [id |-> <<"A", "-", "v", "1">>, attrs |-> Attrs(1, NoneInt, FALSE, {})],
     [id |-> <<"B", "-", "v", "0">>, attrs |-> Attrs(1, 1, FALSE, StoredKwargs)],
     [id |-> <<"N", "/", "B", "-", "v", "1">>,
      attrs |-> Attrs(1, NoneInt, TRUE, {})],
     [id |-> <<"x", ":", "A", "-", "v", "0">>,
      attrs |-> Attrs(1, NoneInt, TRUE, {})]}

\* the paths given to make, and its keyword arguments
MakePaths ==
    {<<"A">>,
     <<"A", "-", "v", "0">>,
     <<"A", "-", "v", "1">>,
     <<"B", "-", "v", "0">>,
     <<"m", ":", "A", "-", "v", "1">>,
     <<"x", ":", "A", "-", "v", "0">>}

CallKwargs == {{}, {<<"a", 2>>}}

\* the paths given to spec: module m is installed, module x is not
SpecPaths ==
    {<<"A", "-", "v", "1">>,
     <<"m", ":", "A", "-", "v", "1">>,
     <<"m", ":", "A", "-", "v", "0">>,
     <<"x", ":", "A", "-", "v", "0">>,
     <<"x", ":", "N", "/">>}

\* the registry with spec and make
NextMake ==
    \/ \E c \in RegisterCalls : RegisterWith(c.id, c.attrs)
    \/ \E key \in RegistryKeys : DelItem(key)
    \/ \E path \in SpecPaths : RegistrySpec(path)
    \/ \E path \in MakePaths, kwargs \in CallKwargs : Make(path, kwargs)

SpecMake == Init /\ [][NextMake]_vars

\* the registry with its namespace scopes
NextRegistry ==
    \/ \E id \in RegisterIds, e \in EntryPoints : Register(id, e)
    \/ \E key \in RegistryKeys : DelItem(key)
    \/ \E key \in RegistryKeys : GetItem(key)
    \/ \E ns \in Namespaces : EnterNamespace(ns)
    \/ \E raised \in BOOLEAN : ExitNamespace(raised)

SpecRegistry == Init /\ [][NextRegistry]_vars

\* ids set, registered, looked up and deleted in the runs of the mutating
\* calls
MutationIds ==
    {<<"A", "-", "v", "1">>,
     <<"N", "/", "A", "-", "v", "1">>,
     MalformedId}

MutationKeys ==
    {<<"A", "-", "v", "0">>,
     <<"A", "-", "v", "1">>,
     <<"A", "-", "v", "2">>,
     <<"B", "-", "v", "0">>,
     <<"M", "/", "A", "-", "v", "0">>,
     MalformedId}

\* the registry and its tree with the calls that change them
NextMutations ==
    \/ \E id \in MutationIds : Register(id, 1)
    \/ \E key \in MutationIds : SetItem(key, 2)
    \/ \E key \in MutationKeys : DelItem(key)
    \/ \E key \in MutationKeys : GetItem(key)
    \/ \E ns \in Namespaces : EnterNamespace(ns)
    \/ \E raised \in BOOLEAN : ExitNamespace(raised)

SpecMutations == Init /\ [][NextMutations]_vars

\* ================================================================ claims
\* ids and names the claims speak about
IdA0 == <<"A", "-", "v", "0">>
IdA1 == <<"A", "-", "v", "1">>
NameA == <<"A">>

\* the dict of versions under [namespace][name], empty when a level is missing
VersionsAt(t, namespace, name) == Sub(Sub(t, namespace), name)

\* the version keys under [namespace][name] in insertion order
VersionKeys(t, namespace, name) ==
    [i \in 1..Len(VersionsAt(t, namespace, name)) |->
        VersionsAt(t, namespace, name)[i].key]

\* the integer versions registered under [namespace][name]
IntVersions(t, namespace, name) ==
    Keys(VersionsAt(t, namespace, name)) \ {NoneInt}

MaxOf(S) == CHOOSE k \in S : \A j \in S : k >= j

\* the last call was a get of a well-formed id
LastGet == last.op = "get" /\ Matches(last.key)

LastKey == parse_env_id(last.key)

\* C1: the size counter equals the number of leaf records, so a second
\* register of the same canonical id leaves it as it was.
C1_LengthCountsLeaves == _length = Len(Leaves(tree))

\* C2: once a namespace scope is left, by return or by exception, the
\* override is None, and a register outside every scope keeps the namespace
\* written in its id.
C2_ExitClearsOverride ==
    /\ last.op = "exit" => _ns = NoneStr
    /\ (last.op = "register" /\ last.res.kind = "ok" /\ scopes = <<>>)
          => last.res.value.namespace = parse_env_id(last.key).namespace

\* C3 as stated: with A-v0 and then A-v1 registered, get of A-v0 raises
\* DeprecatedEnv naming v1.
C3_RegisteredOldVersionDeprecated ==
    (LastGet /\ last.key = IdA0
        /\ VersionKeys(tree, NoneStr, NameA) = <<0, 1>>)
    => (last.res.kind = "DeprecatedEnv" /\ last.res.latest = 1)

\* C3 amended: with A-v0 and then A-v1 registered, get of A-v0 returns the
\* record registered as A-v0; DeprecatedEnv naming v1 is raised for A-v0
\* when A-v1 is registered and A-v0 is not.
C3_RegisteredOldVersionReturned ==
    /\ (LastGet /\ last.key = IdA0
           /\ VersionKeys(tree, NoneStr, NameA) = <<0, 1>>)
       => /\ last.res.kind = "ok"
          /\ last.res.value = Lookup(VersionsAt(tree, NoneStr, NameA), 0)
          /\ SpecId(last.res.value) = IdA0
    /\ (LastGet /\ last.key = IdA0
           /\ VersionKeys(tree, NoneStr, NameA) = <<1>>)
       => (last.res.kind = "DeprecatedEnv" /\ last.res.latest = 1)

C3_Witness ==
    /\ LastGet /\ last.key = IdA0
    /\ VersionKeys(tree, NoneStr, NameA) = <<0, 1>>
    /\ last.res.kind = "ok"

\* C4: for an existing (namespace, name) and an integer version that is not
\* registered under it, get raises DeprecatedEnv when the version is below
\* the largest registered integer version and VersionNotFound otherwise,
\* listing the known versions in ascending order.
C4_MissingVersionKind ==
    (LastGet /\ LastKey.version # NoneInt
        /\ Has(Sub(tree, LastKey.namespace), LastKey.name)
        /\ ~contains(tree, last.key))
    => LET ints == IntVersions(tree, LastKey.namespace, LastKey.name)
       IN  IF ints # {} /\ LastKey.version < MaxOf(ints)
           THEN last.res.kind = "DeprecatedEnv"
           ELSE /\ last.res.kind = "VersionNotFound"
                /\ \A i, j \in 1..Len(last.res.valid) :
                      i < j => last.res.valid[i] < last.res.valid[j]

\* C5: a failing get of a well-formed id raises NamespaceNotFound,
\* NameNotFound, DeprecatedEnv or VersionNotFound and nothing else.
C5_OnlyLookupErrors ==
    (LastGet /\ last.res.kind # "ok")
    => last.res.kind \in {"NamespaceNotFound", "NameNotFound",
                          "DeprecatedEnv", "VersionNotFound"}

\* C6: the latest version ignores the unversioned entry: under a name with
\* an unversioned entry and integer versions, a missing version below the
\* largest integer version raises DeprecatedEnv recommending that version,
\* and a missing version above it raises VersionNotFound.
C6_LatestIgnoresUnversioned ==
    (LastGet /\ LastKey.version # NoneInt
        /\ Has(VersionsAt(tree, LastKey.namespace, LastKey.name), NoneInt)
        /\ IntVersions(tree, LastKey.namespace, LastKey.name) # {}
        /\ ~contains(tree, last.key))
    => LET latest == MaxOf(IntVersions(tree, LastKey.namespace, LastKey.name))
       IN  /\ LastKey.version < latest
              => (last.res.kind = "DeprecatedEnv" /\ last.res.latest = latest)
           /\ LastKey.version > latest
              => last.res.kind = "VersionNotFound"

\* C7 as stated: get of an unnamespaced relocated name that is not
\* registered at the root raises NameNotFound naming the package in every
\* state; get of the name under its relocated namespace returns the record
\* registered there.
C7_RelocatedAlwaysNameNotFound ==
    /\ (LastGet /\ LastKey.namespace = NoneStr
           /\ LastKey.name \in DOMAIN internal_env_relocation_map
           /\ ~Has(Sub(tree, NoneStr), LastKey.name))
       => /\ last.res.kind = "NameNotFound"
          /\ last.res.package = internal_env_relocation_map[LastKey.name].package
    /\ (LastGet /\ LastKey.name \in DOMAIN internal_env_relocation_map
           /\ LastKey.namespace = internal_env_relocation_map[LastKey.name].namespace
           /\ contains(tree, last.key))
       => last.res = Returns(Lookup(VersionsAt(tree, LastKey.namespace,
                                               LastKey.name), LastKey.version))

\* C7 amended: that get raises NameNotFound naming the package in every
\* state where some unnamespaced environment is registered, and
\* NamespaceNotFound where none is; get of the name under its relocated
\* namespace returns the record registered there.
C7_RelocatedNameNotFound ==
    /\ (LastGet /\ LastKey.namespace = NoneStr
           /\ LastKey.name \in DOMAIN internal_env_relocation_map
           /\ ~Has(Sub(tree, NoneStr), LastKey.name))
       => IF Has(tree, NoneStr)
          THEN /\ last.res.kind = "NameNotFound"
               /\ last.res.package =
                     internal_env_relocation_map[LastKey.name].package
          ELSE last.res.kind = "NamespaceNotFound"
    /\ (LastGet /\ LastKey.name \in DOMAIN internal_env_relocation_map
           /\ LastKey.namespace = internal_env_relocation_map[LastKey.name].namespace
           /\ contains(tree, last.key))
       => last.res = Returns(Lookup(VersionsAt(tree, LastKey.namespace,
                                               LastKey.name), LastKey.version))

C7_Witness ==
    /\ LastGet /\ LastKey.namespace = NoneStr
    /\ LastKey.name = RelocatedName
    /\ Has(tree, NoneStr)
    /\ Has(Sub(tree, RelocatedNamespace), RelocatedName)
    /\ last.res.kind = "NameNotFound"
    /\ last.res.package = RelocatedPackage

\* C8: right after set(id, record), get(id) returns that very record,
\* whatever the tree held before.
C8_SetThenGet ==
    (last.op = "set" /\ last.res.kind = "ok")
    => getitem(tree, last.key) = Returns(last.res.value)

\* a set of a namespaced, versioned id that overwrote the leaf of an
\* earlier set
C8_Witness ==
    /\ last.op = "set" /\ last.res.kind = "ok"
    /\ LastKey.namespace # NoneStr
    /\ LastKey.version # NoneInt
    /\ _length > Len(Leaves(tree))

\* C9: a delete of a stored id leaves contains(id) false, removes the name
\* node exactly when it deleted the name's last version and the namespace
\* node exactly when it deleted the namespace's last name, and keeps every
\* other leaf in place.
C9_DeleteRemoves ==
    [][(last'.op = "delete" /\ last'.res.kind = "ok")
       => LET p == parse_env_id(last'.key)
              Other(l) == ~(/\ l.namespace = p.namespace
                            /\ l.name = p.name
                            /\ l.version = p.version)
          IN  /\ contains(tree, last'.key)
              /\ ~contains(tree', last'.key)
              /\ Leaves(tree') = SelectSeq(Leaves(tree), Other)
              /\ Has(Sub(tree', p.namespace), p.name)
                 <=> Len(VersionsAt(tree, p.namespace, p.name)) > 1
              /\ Has(tree', p.namespace)
                 <=> \/ Len(VersionsAt(tree, p.namespace, p.name)) > 1
                     \/ Len(Sub(tree, p.namespace)) > 1]_vars

\* a delete took the last version of A at the root and another name stays
C9_Witness ==
    /\ last.op = "delete" /\ last.res.kind = "ok"
    /\ last.key = IdA0
    /\ Has(tree, NoneStr)
    /\ ~Has(Sub(tree, NoneStr), NameA)

\* C10: get reports the outermost missing level: NamespaceNotFound when the
\* namespace is not in the tree, NameNotFound when the namespace is and the
\* name is not, and DeprecatedEnv or VersionNotFound only when both are.
C10_OutermostMissingLevel ==
    LastGet
    => /\ ~Has(tree, LastKey.namespace)
          => last.res.kind = "NamespaceNotFound"
       /\ (Has(tree, LastKey.namespace)
             /\ ~Has(Sub(tree, LastKey.namespace), LastKey.name))
          => last.res.kind = "NameNotFound"
       /\ last.res.kind \in {"DeprecatedEnv", "VersionNotFound"}
          => /\ Has(tree, LastKey.namespace)
             /\ Has(Sub(tree, LastKey.namespace), LastKey.name)

\* a versioned id whose namespace is missing from a tree that is not empty
C10_Witness ==
    /\ LastGet
    /\ LastKey.namespace # NoneStr /\ LastKey.version # NoneInt
    /\ tree # <<>>
    /\ ~Has(tree, LastKey.namespace)
    /\ last.res.kind = "NamespaceNotFound"

\* the last call, in the next state, was a register of a well-formed id
RegisterStep == last'.op = "register" /\ Matches(last'.key)

\* a namespace the pattern of parse_env_id accepts
WellFormedNamespace(ns) == Len(ns) >= 1 /\ AllIn(ns, NamespaceChars)

\* what C11 says of a register step made under the override _ns
StoredUnderOverride ==
    LET p == parse_env_id(last'.key)
    IN  /\ last'.res.kind = "ok"
        /\ Has(VersionsAt(tree', _ns, p.name), p.version)
        /\ Lookup(VersionsAt(tree', _ns, p.name), p.version) = last'.res.value
        /\ last'.res.value.namespace = _ns
        /\ p.namespace \notin {NoneStr, _ns}
              => Sub(tree', p.namespace) = Sub(tree, p.namespace)
        /\ "namespace overridden" \in last'.res.warnings
              <=> p.namespace # NoneStr

\* C11 as stated: under any namespace override ns, register(id) stores the
\* record at [ns][name][version] with record.namespace = ns, stores nothing
\* under the namespace written in id, and warns exactly when id has one.
C11_OverrideAlwaysStores ==
    [][(RegisterStep /\ _ns # NoneStr) => StoredUnderOverride]_vars

\* C11 amended: that holds under an override made of word characters, dashes
\* and colons; under any other override register raises the malformed-id
\* error and stores nothing.
C11_OverrideStores ==
    [][(RegisterStep /\ _ns # NoneStr)
       => IF WellFormedNamespace(_ns) THEN StoredUnderOverride
          ELSE last'.res.kind = "Error" /\ tree' = tree]_vars

\* a register of an id with its own namespace M, stored under the override N
C11_Witness ==
    /\ last.op = "register" /\ last.res.kind = "ok"
    /\ _ns = <<"N">>
    /\ parse_env_id(last.key).namespace = <<"M">>
    /\ last.res.value.namespace = <<"N">>
    /\ ~Has(tree, <<"M">>)

\* the canonical id a register of id stores under
CanonicalId(id, override) == SpecId(RegisteredSpec(id, 1, override))

C13_IdentityMatchesPosition ==
    \A L \in {Leaves(tree)} : \A i \in 1..Len(L) :
        /\ L[i].spec.namespace = L[i].namespace
        /\ L[i].spec.name = L[i].name
        /\ L[i].spec.version = L[i].version

\* a delete has succeeded and a record registered under the override N with
\* an id that names another namespace is in the tree
C13_Witness ==
    /\ last.op = "delete" /\ last.res.kind = "ok"
    /\ \E i \in 1..Len(Leaves(tree)) :
          /\ Leaves(tree)[i].namespace = <<"N">>
          /\ Leaves(tree)[i].spec.namespace = <<"N">>

\* the last call was contains(key) with a key that parses
LastContains == last.op = "contains" /\ Matches(last.key)

\* C15: for a well-formed id contains raises nothing, is false when the
\* namespace, the name or the version level is missing, and is true exactly
\* when get of the same id returns a record.
C15_ContainsAgreesWithGet ==
    LastContains
    => \A p \in {parse_env_id(last.key)} :
          /\ last.res.kind = "ok"
          /\ last.flag <=> getitem(tree, last.key).kind = "ok"
          /\ ~Has(tree, p.namespace) => ~last.flag
          /\ ~Has(Sub(tree, p.namespace), p.name) => ~last.flag
          /\ ~Has(VersionsAt(tree, p.namespace, p.name), p.version)
                => ~last.flag

\* contains answered false for a version that is missing under a name that
\* is there
C15_Witness ==
    /\ LastContains
    /\ ~last.flag
    /\ Has(Sub(tree, parse_env_id(last.key).namespace),
           parse_env_id(last.key).name)

\* the last call was versions(namespace, name)
LastVersions == last.op = "versions"

\* the records stored under [namespace][name], in insertion order
RecordsAt(t, namespace, name) == Values(VersionsAt(t, namespace, name))

C14_WitnessBaseOnly ==
    /\ LastVersions
    /\ last.key = <<NoneStr, RelocatedName>>
    /\ last.res.kind = "ok"
    /\ Has(tree, RelocatedNamespace)
    /\ ~Has(Sub(tree, RelocatedNamespace), RelocatedName)

\* the last call, in the next state, was make(path, **kwargs)
MakeStep == last'.op = "make"

\* the last call was make(path, **kwargs)
LastMake == last.op = "make"

\* the keys of a dict
KwargKeys(kwargs) == {p[1] : p \in kwargs}

\* C16: make constructs the environment with the stored kwargs of the record
\* overlaid by the kwargs of the call, the value of the call winning on a
\* shared key, and leaves the registered record as it was, so that a make
\* without kwargs uses the stored defaults alone.
C16_MakeKeepsRecord ==
    [][(MakeStep /\ last'.res.kind = "ok")
       => \A r \in {registry_spec(last'.key[1])}, given \in {last'.key[2]} :
          \A stored \in {r.res.value.kwargs}, used \in {last'.res.env.kwargs} :
             /\ given \subseteq used
             /\ \A p \in stored : p[1] \notin KwargKeys(given) => p \in used
             /\ \A p \in used :
                   p \in given \/ (p \in stored /\ p[1] \notin KwargKeys(given))
             /\ last'.res.env.spec.kwargs = used
             /\ tree' = r.tree
             /\ getitem(tree', PathId(last'.key[1])) = r.res
             /\ spec_make(getitem(tree', PathId(last'.key[1])).value, {})
                    .env.kwargs = stored]_vars

\* make("A-v0", a=2) built its environment with a=2 and the stored b=1, and
\* the record of A-v0 still holds a=1, b=1
C16_Witness ==
    /\ LastMake /\ last.res.kind = "ok"
    /\ last.key = <<IdA0, {<<"a", 2>>}>>
    /\ last.res.env.kwargs = {<<"a", 2>>, <<"b", 1>>}
    /\ getitem(tree, IdA0).value.kwargs = StoredKwargs

\* spec(path) finds a record: the module of the path, if any, is installed
\* and the id of the path is in the tree
Resolves(path) ==
    /\ HasModule(path) => ModName(path) \in InstalledModules
    /\ getitem(tree, PathId(path)).kind = "ok"

\* C17: make logs the upgrade warning exactly when the resolved record has
\* an integer version and a record that versions(namespace, name) lists has
\* a higher integer version; warned or not, make returns what the make of
\* the resolved record returns: its environment when it has an entry point.
C17_UpgradeWarning ==
    (LastMake /\ Resolves(last.key[1]))
    => \A record \in {getitem(tree, PathId(last.key[1])).value} :
       \A listed \in {versions(tree, record.namespace, record.name).specs} :
          /\ "out of date" \in last.res.warnings
                <=> /\ record.version # NoneInt
                    /\ \E i \in 1..Len(listed) :
                          /\ listed[i].version # NoneInt
                          /\ listed[i].version > record.version
          /\ [last.res EXCEPT !.warnings = {}, !.latest = NoneInt]
                = spec_make(record, last.key[2])
          /\ record.entry_point # NoEntryPoint
                => /\ last.res.kind = "ok"
                   /\ last.res.env.entry_point = record.entry_point
                   /\ SpecId(last.res.env.spec) = SpecId(record)

\* make("B-v0") returned an environment and logged the warning that names
\* v1, registered under the relocated namespace only
C17_Witness ==
    /\ LastMake /\ last.res.kind = "ok"
    /\ last.key[1] = <<"B", "-", "v", "0">>
    /\ "out of date" \in last.res.warnings
    /\ last.res.latest = 1
    /\ contains(tree, <<"N", "/", "B", "-", "v", "1">>)

\* C18: the environment make returns is wrapped in TimeLimit exactly when
\* max_episode_steps of the record is set, in OrderEnforcing exactly when it
\* is not set and order_enforce is requested, never in both, and in neither
\* otherwise.
C18_WrapperChoice ==
    (LastMake /\ last.res.kind = "ok")
    => \A record \in {getitem(tree, PathId(last.key[1])).value},
          w \in {last.res.env.wrappers} :
          /\ w \subseteq {"TimeLimit", "OrderEnforcing"}
          /\ "TimeLimit" \in w <=> record.max_episode_steps # NoneInt
          /\ "OrderEnforcing" \in w
                <=> (record.max_episode_steps = NoneInt /\ record.order_enforce)
          /\ w # {"TimeLimit", "OrderEnforcing"}
          /\ w = {} <=> (record.max_episode_steps = NoneInt
                           /\ ~record.order_enforce)

\* make returned an environment in TimeLimit for a record with
\* max_episode_steps=0 and order_enforce=True
C18_Witness ==
    /\ LastMake /\ last.res.kind = "ok"
    /\ last.res.env.wrappers = {"TimeLimit"}
    /\ last.res.env.spec.max_episode_steps = 0
    /\ last.res.env.spec.order_enforce

\* make returned an environment in no wrapper
C18_WitnessUnwrapped ==
    /\ LastMake /\ last.res.kind = "ok"
    /\ last.res.env.wrappers = {}

\* C19: make of a record registered without an entry point raises the error
\* of the missing entry point, constructs no environment and leaves the tree
\* as it was.
C19_NoEntryPoint ==
    [][MakeStep
       => \A r \in {registry_spec(last'.key[1])} :
          (r.res.kind = "ok" /\ r.res.value.entry_point = NoEntryPoint)
          => /\ last'.res.kind = "Error"
             /\ last'.res.msg = "Attempting to make deprecated env"
             /\ last'.res.env = NoEnv
             /\ tree' = r.tree
             /\ ~HasModule(last'.key[1]) => tree' = tree
             /\ _length' = r._length]_vars

\* make("A-v0") failed on the record of A-v0, registered without an entry
\* point
C19_Witness ==
    /\ LastMake
    /\ last.res.kind = "Error"
    /\ last.res.msg = "Attempting to make deprecated env"
    /\ last.key[1] = IdA0
    /\ getitem(tree, IdA0).value.entry_point = NoEntryPoint

\* C20: spec of a path module:id imports the module before it reads the
\* tree, so that an id the import registers is found by the same call; a
\* module that is not installed gives the import error and no lookup in the
\* tree; a path without a module is looked up as the id.
C20_ImportBeforeLookup ==
    [][last'.op = "spec"
       => \A path \in {last'.key} :
          IF HasModule(path)
          THEN IF ModName(path) \notin InstalledModules
               THEN /\ last'.res = ModuleNotFound
                    /\ tree' = tree
                    /\ sys_modules' = sys_modules
               ELSE /\ ModName(path) \in sys_modules'
                    /\ last'.res = getitem(tree', PathId(path))
                    /\ ModName(path) \notin sys_modules
                          => /\ contains(tree', ModuleId)
                             /\ PathId(path) = ModuleId
                                   => /\ last'.res.kind = "ok"
                                      /\ last'.res.value.entry_point
                                            = ModuleEntryPoint
          ELSE /\ last'.res = getitem(tree, path)
               /\ tree' = tree
               /\ sys_modules' = sys_modules]_vars

\* spec("m:A-v1") returned the record the import of m registered, the only
\* registration made so far
C20_Witness ==
    /\ last.op = "spec"
    /\ last.key = <<"m", ":", "A", "-", "v", "1">>
    /\ last.res.kind = "ok"
    /\ last.res.value.entry_point = ModuleEntryPoint
    /\ _length = 1
    /\ sys_modules = {<<"m">>}

\* spec("x:N/") raised the import error for an id that does not parse
C20_WitnessNoLookup ==
    /\ last.op = "spec"
    /\ last.key = <<"x", ":", "N", "/">>
    /\ last.res = ModuleNotFound

\* the last call was parse_env_id(id)
LastParse == last.op = "parse"

\* C21: for every id the parser accepts, the canonical string of parse(id)
\* is accepted, parses to the same triple and renders to itself again.
C21_CanonicalRoundTrip ==
    (LastParse /\ last.flag)
    => \A triple \in {last.res.value} : \A cid \in {SpecId(triple)} :
          /\ Matches(cid)
          /\ parse_env_id(cid) = triple
          /\ SpecId(parse_env_id(cid)) = cid

\* an accepted id that is not its own canonical string: "A-v00" parses to
\* version 0 and renders as "A-v0"
C21_Witness ==
    /\ LastParse /\ last.flag
    /\ last.key = <<"A", "-", "v", "0", "0">>
    /\ last.res.value.version = 0
    /\ SpecId(last.res.value) = <<"A", "-", "v", "0">>

\* an accepted id with a namespace
C21_WitnessNamespace ==
    /\ LastParse /\ last.flag
    /\ last.res.value.namespace = <<"A">>
    /\ last.res.value.name = <<"v">>

\* word characters, dashes, colons and dots
DottedAlphabet == WordChars \cup {"-", ":", "."}

\* word characters, dashes and colons
PlainAlphabet == WordChars \cup {"-", ":"}

\* id is [namespace/]name[-vVERSION] with a non-empty namespace over nsChars,
\* a non-empty name over nameChars and a version of one digit or more
InGrammar(id, nsChars, nameChars) ==
    \E n \in 0..Len(id), k \in 1..Len(id) :
        /\ n > 0 => /\ n + 1 <= Len(id)
                    /\ id[n + 1] = "/"
                    /\ AllIn(SubSeq(id, 1, n), nsChars)
        /\ \A first \in {IF n = 0 THEN 1 ELSE n + 2} :
              /\ first <= k
              /\ AllIn(SubSeq(id, first, k), nameChars)
              /\ \/ k = Len(id)
                 \/ /\ k + 3 <= Len(id)
                    /\ id[k + 1] = "-"
                    /\ id[k + 2] = "v"
                    /\ AllIn(SubSeq(id, k + 3, Len(id)), Digits)

\* the id "A.A/A", whose namespace holds a dot
DottedId == <<"A", ".", "A", "/", "A">>

\* C22 as stated: the parser accepts exactly the ids whose namespace and name
\* are non-empty over word characters, dashes, colons and dots, with an
\* optional -v<digits> suffix, rejects the others with the malformed-id
\* error, and accepts an id with a dotted namespace with that namespace.
C22_AcceptsDottedNamespace ==
    LastParse
    => /\ last.flag <=> InGrammar(last.key, DottedAlphabet, DottedAlphabet)
       /\ ~last.flag => last.res = Malformed
       /\ last.key = DottedId
             => last.flag /\ last.res.value.namespace = <<"A", ".", "A">>

\* C22 amended: the dot is accepted in the name only; the namespace is
\* non-empty over word characters, dashes and colons, and an id with a
\* dotted namespace is rejected with the malformed-id error.
C22_AcceptsGrammar ==
    LastParse
    => /\ last.flag <=> InGrammar(last.key, PlainAlphabet, DottedAlphabet)
       /\ ~last.flag => last.res = Malformed
       /\ last.flag => last.res.kind = "ok"
       /\ last.key = DottedId => last.res = Malformed

\* the id with the dotted namespace was rejected
C22_Witness ==
    /\ LastParse
    /\ last.key = DottedId
    /\ last.res = Malformed

\* an id with a dot in its name and a colon in its namespace was accepted
C22_WitnessAccepted ==
    /\ LastParse /\ last.flag
    /\ last.key = <<":", "/", "A", ".", "A">>
    /\ last.res.value.namespace = <<":">>
    /\ last.res.value.name = <<"A", ".", "A">>


\* ------------------------------------------------------------- claim C23
\* the positions of the leaves in iteration order
LeafKeys(t) ==
    [i \in 1..Len(Leaves(t)) |->
        <<Leaves(t)[i].namespace, Leaves(t)[i].name, Leaves(t)[i].version>>]

\* the ids a full iteration of t yields
IterIds(t) == iterate(t).ids

\* the canonical id of a position
IdOf(k) == SpecId([namespace |-> k[1], name |-> k[2], version |-> k[3]])

InsertAfter(seq, k, x) == SubSeq(seq, 1, k) \o <<x>> \o SubSeq(seq, k + 1, Len(seq))

\* new is keys with key where first insertion puts it: behind the last
\* leaf of its name, else behind the last leaf of its namespace, else at
\* the end; a leaf that is already there does not move
StoredInOrder(keys, key, new) ==
    \A sameNs \in {{i \in 1..Len(keys) : keys[i][1] = key[1]}} :
    \A sameName \in {{i \in sameNs : keys[i][2] = key[2]}} :
        IF \E i \in 1..Len(keys) : keys[i] = key THEN new = keys
        ELSE IF sameName # {} THEN new = InsertAfter(keys, MaxOf(sameName), key)
        ELSE IF sameNs # {} THEN new = InsertAfter(keys, MaxOf(sameNs), key)
        ELSE new = Append(keys, key)

\* the ids of the leaves the tree holds, by membership
StoredIds(t) == {key \in ReadIds : contains(t, key)}

\* C23: an iteration yields the canonical id of every stored leaf exactly
\* once, in the order of the leaves; a leaf new to the tree comes behind the
\* leaves of its name, else behind the leaves of its namespace, else last,
\* so that namespaces, names and versions come in the order they were first
\* inserted; a delete takes one leaf out and keeps the order of the others;
\* the sequence is a function of the tree, so a second iteration yields it
\* again
C23_IterationOrder ==
    [][/\ (last'.op = "set" /\ last'.res.kind = "ok")
          => \A p \in {parse_env_id(last'.key)} :
             \A keys \in {LeafKeys(tree)} :
             \A new \in {LeafKeys(tree')} :
                StoredInOrder(keys, <<p.namespace, p.name, p.version>>, new)
       /\ (last'.op = "delete" /\ last'.res.kind = "ok")
          => \A p \in {parse_env_id(last'.key)} :
                LeafKeys(tree') =
                    SelectSeq(LeafKeys(tree),
                              LAMBDA k : k # <<p.namespace, p.name, p.version>>)
       /\ last'.op = "iter"
          => /\ last'.res = iterate(tree')
             /\ last'.res.kind = "ok"
             /\ \A ids \in {last'.res.ids} :
                \A keys \in {LeafKeys(tree')} :
                   /\ Len(ids) = Len(keys)
                   /\ \A i \in 1..Len(ids) : ids[i] = IdOf(keys[i])
                   /\ {ids[i] : i \in 1..Len(ids)} = StoredIds(tree')
                   /\ \A i, j \in 1..Len(ids) : ids[i] = ids[j] => i = j
      ]_vars

\* the id stored last is yielded between two ids stored before it
C23_Witness ==
    /\ last.op = "set"
    /\ last.key = <<"N", "/", "A", "-", "v", "0">>
    /\ IterIds(tree) = << <<"N", "/", "B", "-", "v", "0">>,
                          <<"N", "/", "A", "-", "v", "0">>,
                          <<"A", "-", "v", "0">> >>

C23_WitnessIterated ==
    /\ last.op = "iter"
    /\ last.res.ids = << <<"A", "-", "v", "0">>,
                         <<"A", "-", "v", "1">>,
                         <<"B", "-", "v", "0">> >>

\* ------------------------------------------------------------- claim C24
\* C24: when the function of a plugin raises an Exception, load_env_plugins
\* logs it and raises nothing, goes on with the plugins that remain, keeps
\* the tree with what the function registered, and leaves the namespace
\* override None for the next plugin
C24_PluginErrorsAreCaught ==
    [][(/\ loader.pc = "body"
        /\ last'.op = "plugin_end"
        /\ last'.res.kind = "Exception")
       => /\ loader'.error = ""
          /\ ~last'.flag
          /\ "plugin raised" \in loader'.warnings
          /\ loader'.queue = Tail(loader.queue)
          /\ loader'.pc = IF Len(loader'.queue) > 0 THEN "next" ELSE "done"
          /\ tree' = tree
          /\ _length' = _length
          /\ _ns' = NoneStr]_vars

\* a function that registered an id and then raised, with a plugin to go
C24_Witness ==
    /\ last.op = "plugin_end"
    /\ last.res.kind = "Exception"
    /\ last.key = <<"p">>
    /\ Has(tree, <<"p">>)
    /\ loader.pc = "next"
    /\ _ns = NoneStr

\* the plugin after one that raised registers
C24_WitnessNext ==
    /\ loader.pc = "body"
    /\ "plugin raised" \in loader.warnings
    /\ last.op = "register"
    /\ last.res.kind = "ok"

\* ------------------------------------------------------------- claim C25
ReservedNames == {RootName, InternalName}

\* C25: while the function of a plugin runs, the override is the name of
\* the plugin, and what it registers is stored under that name; for
\* __root__ and __internal__ no override is active and an id is stored as
\* written, at the root when it has no namespace
C25_PluginNamespace ==
    loader.pc = "body"
    => /\ _ns = IF loader.plugin.name \in ReservedNames THEN NoneStr
                ELSE loader.plugin.name
       /\ (last.op = "register" /\ last.res.kind = "ok")
          => \A p \in {parse_env_id(last.key)} :
             \A stored \in {last.res.value} :
                /\ stored.namespace =
                      IF loader.plugin.name \in ReservedNames
                      THEN p.namespace ELSE loader.plugin.name
                /\ stored.name = p.name
                /\ stored.version = p.version
                /\ getitem(tree, SpecId(stored)) = Returns(stored)

C25_Witness ==
    /\ loader.pc = "body"
    /\ loader.plugin.name = <<"p">>
    /\ last.op = "register"
    /\ last.res.kind = "ok"
    /\ last.key = <<"N", "/", "A", "-", "v", "0">>
    /\ contains(tree, <<"p", "/", "A", "-", "v", "0">>)

C25_WitnessRoot ==
    /\ loader.pc = "body"
    /\ loader.plugin.name = RootName
    /\ last.op = "register"
    /\ last.res.kind = "ok"
    /\ last.key = <<"A", "-", "v", "0">>
    /\ Has(tree, NoneStr)

C25_WitnessInternal ==
    /\ loader.pc = "body"
    /\ loader.plugin.name = InternalName
    /\ last.op = "register"
    /\ last.res.kind = "ok"
    /\ last.key = <<"N", "/", "A", "-", "v", "0">>
    /\ Has(tree, <<"N">>)

\* ------------------------------------------------------------- claim C26
\* C26: when play is given no keys_to_action and the environment has a
\* default mapping, play raises nothing on account of the missing argument
\* and every action it passes to env.step is the one the default mapping
\* has for the pressed keys, 0 when it has none
C26_DefaultMappingUsed ==
    (game.pc # "idle" /\ game.keys_to_action.none /\ ~game.default.none)
    => /\ game.error \notin {"AttributeError", "MissingKeysToAction"}
       /\ game.call.op = "step"
          => game.call.action = MappingGet(game.default, game.call.keys, 0)

\* ------------------------------------------------------------- claim C27
\* C27: with no namespace override active, spec(id) of a well-formed id that
\* register stored returns the stored record, also when the namespace or
\* the name of the id holds a colon
C27_SpecReturnsRegistered ==
    (/\ last.op = "spec"
     /\ _ns = NoneStr
     /\ Matches(last.key)
     /\ contains(tree, last.key))
    => /\ last.res.kind = "ok"
       /\ last.res = getitem(tree, last.key)

\* ------------------------------------------------------------- claim C28
\* C28: a nested scope that completes gives the override back to the scope
\* around it, so that a register made in the outer scope after the inner
\* one is stored under the outer namespace
C28_InnerExitRestores ==
    [][(last'.op = "exit" /\ ~last'.flag /\ Len(scopes') >= 1)
        => _ns' = scopes'[Len(scopes')]]_vars

\* ------------------------------------------------------------- claim C29
ReadOps == {"get", "contains", "names", "versions", "namespaces", "iter"}

\* the tree has no namespace without a name and no name without a version
NoEmptyNode(t) ==
    \A i \in 1..Len(t) :
        /\ Len(t[i].val) >= 1
        /\ \A j \in 1..Len(t[i].val) : Len(t[i].val[j].val) >= 1

\* C29: get, contains, names, versions, namespaces and iteration leave the
\* tree and the size counter as they were, whether they return or raise; a
\* failed lookup of an unknown namespace or name adds no node to the
\* default-constructing nested map
C29_ReadsKeepTree ==
    [][last'.op \in ReadOps => (tree' = tree /\ _length' = _length)]_vars

C29_Witness ==
    /\ last.op = "get"
    /\ last.res.kind = "NamespaceNotFound"
    /\ Len(tree) >= 1

C29_WitnessContains ==
    /\ last.op = "contains"
    /\ last.res.kind = "ok"
    /\ ~last.flag
    /\ Len(tree) >= 1
    /\ ~Has(tree, parse_env_id(last.key).namespace)

C29_WitnessName ==
    /\ last.op = "versions"
    /\ last.res.kind = "NameNotFound"
    /\ Has(tree, last.key[1])

\* ------------------------------------------------------------- claim C30
\* C30: after any sequence of set and delete the tree has no empty node,
\* and a lookup that raises VersionNotFound, which is raised past the name
\* check, lists at least one known version of the name
C30_NoEmptyNodes ==
    /\ NoEmptyNode(tree)
    /\ (last.op \in {"get", "delete"} /\ last.res.kind = "VersionNotFound")
       => /\ Len(last.res.valid) >= 1
          /\ \A p \in {parse_env_id(last.key)} :
                 /\ Has(Sub(tree, p.namespace), p.name)
                 /\ Len(Lookup(Lookup(tree, p.namespace), p.name)) >= 1

C30_Witness ==
    /\ last.op = "delete"
    /\ last.res.kind = "ok"
    /\ Len(tree) >= 1

C30_WitnessVersion ==
    /\ last.op = "get"
    /\ last.res.kind = "VersionNotFound"

\* ------------------------------------------------------------- claim C31
\* C31: a set, register or delete that raises leaves the tree, the size
\* counter and the namespace override as they were; a delete of an id that
\* is not stored raises what get of that id raises; a set or register of a
\* malformed id raises the malformed-identifier error
C31_RaisingCallsKeepRegistry ==
    [][/\ (last'.op \in {"set", "register", "delete"} /\ last'.res.kind # "ok")
          => /\ tree' = tree
             /\ _length' = _length
             /\ _ns' = _ns
       /\ (last'.op = "delete" /\ last'.res.kind # "ok")
          => last'.res = getitem(tree, last'.key)
       /\ (last'.op \in {"set", "register"} /\ ~Matches(last'.key))
          => last'.res = Malformed
      ]_vars

\* a delete of a version that is not stored, beside one that is
C31_Witness ==
    /\ last.op = "delete"
    /\ last.res.kind = "VersionNotFound"
    /\ _length >= 1

C31_WitnessDeprecated ==
    /\ last.op = "delete"
    /\ last.res.kind = "DeprecatedEnv"

C31_WitnessNamespace ==
    /\ last.op = "delete"
    /\ last.res.kind = "NamespaceNotFound"
    /\ _length >= 1

\* a register of a malformed id inside a namespace scope, with a record
\* stored
C31_WitnessRegister ==
    /\ last.op = "register"
    /\ last.key = MalformedId
    /\ last.res = Malformed
    /\ _ns = <<"N">>
    /\ _length >= 1

C31_WitnessSet ==
    /\ last.op = "set"
    /\ last.res = Malformed
    /\ _length >= 1

\* ------------------------------------------------------------- claim C32
\* C32: whatever KEYDOWN and KEYUP events process_event is given, it does
\* not raise, and pressed_keys holds relevant keys only, each at most once;
\* a KEYUP of a relevant key that is not pressed and a second KEYDOWN of a
\* pressed key are among the events
C32_PressedKeysTracked ==
    /\ game.error # "ValueError"
    /\ \A i \in 1..Len(game.pressed_keys) :
          /\ game.pressed_keys[i] \in game.relevant_keys
          /\ \A j \in 1..Len(game.pressed_keys) :
                game.pressed_keys[i] = game.pressed_keys[j] => i = j

\* ------------------------------------------------------------- claim C33
\* a turn of the loop calls the environment
EnvCalled == game.pc = "loop" /\ game'.pc = "events"

\* C33: the loop never steps an episode that is done: the call after a
\* step that returned done is reset; QUIT and a KEYDOWN of the escape key
\* that is not a relevant key set running to false; once running is false
\* it stays false and the environment is not called again
C33_NoStepAfterDone ==
    [][/\ (EnvCalled /\ game.done)
          => (game'.call.op = "reset" /\ ~game'.done)
       /\ (EnvCalled /\ game'.call.op = "step") => ~game.done
       /\ game.pc = "events"
          => /\ ~process_event(game, Event("QUIT", 0)).running
             /\ K_ESCAPE \notin game.relevant_keys
                => ~process_event(game, Event("KEYDOWN", K_ESCAPE)).running
       /\ (game.pc \in {"events", "stopped"} /\ ~game.running)
          => /\ ~game'.running
             /\ game'.call = game.call
             /\ game'.pc \in {"events", "stopped", "raised"}
      ]_vars

\* a step has returned done and the loop goes on
C33_Witness ==
    /\ game.pc = "loop"
    /\ game.call.op = "step"
    /\ game.done

\* the loop was left after a step
C33_WitnessStopped ==
    /\ game.pc = "stopped"
    /\ ~game.running
    /\ game.call.op = "step"

\* the escape key is relevant and pressed, and the game runs
C33_WitnessEscape ==
    /\ game.pc = "loop"
    /\ game.running
    /\ game.pressed_keys = <<K_ESCAPE>>

====
